---- MODULE Spec2Model ----
(***************************************************************************)
(* A model of the reservation manager of slurmctld                         *)
(* (src/slurmctld/reservation.c): the in-memory reservation list, the      *)
(* create / update / delete requests, the state save file rotation, the    *)
(* recovery of the list from the state file and the periodic sweep of the  *)
(* jobs over the reservations.                                             *)
(*                                                                         *)
(* Conventions.  A C string that holds a comma separated list is a         *)
(* sequence of tokens; a token of a user or account list is the pair       *)
(* <<sign, name>> with sign "", "+" or "-" (its first character);  a host  *)
(* list is a sequence of host names.  A NULL pointer is the value NULL of  *)
(* the same shape.  A bitmap is the set of the node indices that are set.  *)
(* A reservation name is the pair <<prefix, n>> that reads "prefix_n";     *)
(* n = 0 stands for a name without a numeric suffix (atoi() yields 0 for   *)
(* both).  Times are seconds; NO_VAL and INFINITE are scaled to fit the    *)
(* integers of the checker and keep their order (every time < NO_VAL <     *)
(* INFINITE).                                                              *)
(***************************************************************************)
EXTENDS Integers, Sequences, FiniteSets, TLC

VARIABLES
    resv_list,          \* List resv_list: the records, in list order
    top_suffix,         \* uint32_t top_suffix
    now,                \* what time(NULL) returns
    job_list,           \* the job records the controller holds
    idle_node_bitmap,   \* nodes with no job
    avail_node_bitmap,  \* nodes that are up
    inodes,             \* the data of the files of state_save_location
    dir,                \* the names resv_state.new, resv_state, resv_state.old
    dump,               \* dump_all_resv_state in progress: its position and buffer
    sweep,              \* 0, or the index of the next job the sweep checks
    updates,            \* the update_resv calls made so far
    ctld,               \* "running", "crashed" (a fault ended it) or "hung"
    last,               \* the last call made and what it returned
    acct_calls,         \* the calls that call made to the accounting storage
    readers,            \* the job_test_resv call each reader thread is in
    all_ok              \* every call so far returned SLURM_SUCCESS

vars == <<resv_list, top_suffix, now, job_list, idle_node_bitmap,
          avail_node_bitmap, inodes, dir, dump, sweep, updates,
          ctld, last,
          acct_calls, readers, all_ok>>

(***************************************************************************)
(* Bounds of the model                                                     *)
(***************************************************************************)
NodeCount == 3
MaxResv == 2
MaxJobs == 1
MaxSuffix == 3
MaxTicks == 1
MaxUpdates == 2
MaxDumps == 2
MaxCheckpoints == 1
MaxReaders == 2
MaxReaderCalls == 1
\* seconds between the times of the model
Step == 100

(***************************************************************************)
(* Program constants                                                       *)
(***************************************************************************)
SLURM_SUCCESS == "SLURM_SUCCESS"
ESLURM_INVALID_TIME_VALUE == "ESLURM_INVALID_TIME_VALUE"
ESLURM_INVALID_PARTITION_NAME == "ESLURM_INVALID_PARTITION_NAME"
ESLURM_INVALID_BANK_ACCOUNT == "ESLURM_INVALID_BANK_ACCOUNT"
ESLURM_USER_ID_MISSING == "ESLURM_USER_ID_MISSING"
ESLURM_INVALID_NODE_NAME == "ESLURM_INVALID_NODE_NAME"
ESLURM_TOO_MANY_REQUESTED_NODES == "ESLURM_TOO_MANY_REQUESTED_NODES"
ESLURM_RESERVATION_INVALID == "ESLURM_RESERVATION_INVALID"
ESLURM_RESERVATION_BUSY == "ESLURM_RESERVATION_BUSY"
ESLURM_RESERVATION_ACCESS == "ESLURM_RESERVATION_ACCESS"
ESLURM_DEFAULT_PARTITION_NOT_SET == "ESLURM_DEFAULT_PARTITION_NOT_SET"
EFAULT == "EFAULT"

RESV_STATE_VERSION == "VER001"

\* seconds a start or end time may lie in the past
GraceSecs == 60
\* seconds in a minute: durations and resv_over_run are given in minutes
MinuteSecs == 60

NO_VAL == 2000000000
INFINITE == 2000000001

NULL == "NULL"
NULL_LIST == << <<NULL, NULL>> >>
NULL_HOSTS == <<NULL>>
NULL_NAME == <<NULL, 0>>
NULL_BITMAP == {-1}
NO_VAL_FLAGS == {"NO_VAL"}

RESERVE_FLAG_MAINT == "MAINT"
RESERVE_FLAG_NO_MAINT == "NO_MAINT"
RESERVE_FLAG_DAILY == "DAILY"
RESERVE_FLAG_NO_DAILY == "NO_DAILY"
RESERVE_FLAG_WEEKLY == "WEEKLY"
RESERVE_FLAG_NO_WEEKLY == "NO_WEEKLY"

(***************************************************************************)
(* The collaborators: node inventory, partitions, identities               *)
(***************************************************************************)
Nodes == 0 .. (NodeCount - 1)

HostNames == <<"n0", "n1", "n2", "n3", "n4", "n5", "n6", "n7">>

\* node_record_table_ptr[i].name
NodeName(i) == HostNames[i + 1]

\* the feature_array of each node's configuration
NodeFeatures(i) == IF i = 0 THEN {} ELSE {"fast"}

\* cpus of a node: configured (fast_schedule) or observed
fast_schedule == TRUE

NodeCpus(i) == IF fast_schedule THEN 4 ELSE 2

\* the partition records: name -> node_bitmap
PartNames == {"batch", "debug"}

PartNodes(p) == IF p = "debug" THEN Nodes \ {0} ELSE Nodes

default_part_loc == "batch"

find_part_record(name) == IF name \in PartNames THEN name ELSE NULL

\* uid_from_string(): the uid of a user name, -1 for no such user.  A token
\* that still carries its sign is no user name.
uid_from_string(sign, name) ==
    IF sign # "" THEN -1
    ELSE CASE name = "alice" -> 1001
           [] name = "bob" -> 1002
           [] name = "carol" -> 1003
           [] OTHER -> -1

\* the text of a token
TokText(t) == t[1] \o t[2]

(***************************************************************************)
(* Bitmaps and host lists                                                  *)
(***************************************************************************)
\* Op applied to v: v is a local variable of the code, computed once and
\* read under the name the LAMBDA gives it
With(v, Op(_)) == Op(v)

RECURSIVE LowestN(_, _)
LowestN(b, n) ==
    IF n = 0 \/ b = {} THEN {}
    ELSE LET m == CHOOSE x \in b : \A y \in b : x <= y
         IN {m} \cup LowestN(b \ {m}, n - 1)

\* bit_pick_cnt(): the nbits lowest bits set in b, NULL when b has fewer
bit_pick_cnt(b, nbits) ==
    IF Cardinality(b) < nbits THEN NULL_BITMAP ELSE LowestN(b, nbits)

bit_set_count(b) == Cardinality(b)

bit_overlap(a, b) == Cardinality(a \cap b)

\* bit_not(): every bit of the node table is inverted
bit_not(b) == Nodes \ b

\* node_name2bitmap(): [rc, bitmap]; rc is nonzero when a host is unknown
node_name2bitmap(hosts) ==
    LET known == {i \in Nodes : \E k \in 1 .. Len(hosts) : hosts[k] = NodeName(i)}
        bad == \E k \in 1 .. Len(hosts) : \A i \in Nodes : hosts[k] # NodeName(i)
    IN [rc |-> IF bad THEN 1 ELSE 0, bitmap |-> known]

RECURSIVE SortedHosts(_)
SortedHosts(b) ==
    IF b = {} THEN <<>>
    ELSE LET m == CHOOSE x \in b : \A y \in b : x <= y
         IN <<NodeName(m)>> \o SortedHosts(b \ {m})

\* bitmap2node_name(): the canonical host list of a bitmap
bitmap2node_name(b) == IF b = NULL_BITMAP THEN <<>> ELSE SortedHosts(b)

ALL_HOSTS == <<"ALL">>

(***************************************************************************)
(* Principal lists                                                         *)
(***************************************************************************)
FREED_LIST == << <<"FREED", "FREED">> >>

\* what a read of a name through a pointer into freed memory may yield
GARBAGE == <<"", "?">>

Member(seq, x) == \E k \in 1 .. Len(seq) : seq[k] = x

RemoveFirst(seq, x) ==
    LET k == CHOOSE j \in 1 .. Len(seq) :
                 seq[j] = x /\ \A h \in 1 .. (j - 1) : seq[h] # x
    IN [j \in 1 .. (Len(seq) - 1) |-> IF j < k THEN seq[j] ELSE seq[j + 1]]

_is_account_valid(account) == TRUE

\* the sign of a token is used before an unsigned token: "expression invalid"
MixedAt(toks, k) ==
    toks[k][1] = "" /\ \E j \in 1 .. (k - 1) : toks[j][1] # ""

_build_account_list(accounts) ==
    IF accounts = NULL_LIST
    THEN [rc |-> ESLURM_INVALID_BANK_ACCOUNT, cnt |-> 0, list |-> <<>>]
    ELSE IF \E k \in 1 .. Len(accounts) : ~_is_account_valid(accounts[k])
    THEN [rc |-> ESLURM_INVALID_BANK_ACCOUNT, cnt |-> 0, list |-> <<>>]
    ELSE [rc |-> SLURM_SUCCESS, cnt |-> Len(accounts), list |-> accounts]

_build_uid_list(users) ==
    IF users = NULL_LIST
    THEN [rc |-> ESLURM_USER_ID_MISSING, cnt |-> 0, list |-> <<>>]
    ELSE IF \E k \in 1 .. Len(users) : uid_from_string(users[k][1], users[k][2]) = -1
    THEN [rc |-> ESLURM_USER_ID_MISSING, cnt |-> 0, list |-> <<>>]
    ELSE [rc |-> SLURM_SUCCESS, cnt |-> Len(users),
          list |-> [k \in 1 .. Len(users) |->
                        uid_from_string(users[k][1], users[k][2])]]

\* the canonical string of an account list; NULL for an empty list (the
\* string is freed and built again only from the entries there are)
JoinAccounts(list) == IF Len(list) = 0 THEN NULL_LIST ELSE list

\* the loop over the '-' tokens: [ok, list]; it stops at the first token
\* that is not in the list and keeps the removals made so far
RECURSIVE AccountMinus(_, _, _)
AccountMinus(list, toks, i) ==
    IF i > Len(toks) THEN [ok |-> TRUE, list |-> list]
    ELSE IF toks[i][1] # "-" THEN AccountMinus(list, toks, i + 1)
    ELSE IF Member(list, <<"", toks[i][2]>>)
         THEN AccountMinus(RemoveFirst(list, <<"", toks[i][2]>>), toks, i + 1)
         ELSE [ok |-> FALSE, list |-> list]

\* AccountPlus without the search for the account in the list
RECURSIVE AccountPlus_no_search(_, _, _)
AccountPlus_no_search(list, toks, i) ==
    IF i > Len(toks) THEN list
    ELSE IF toks[i][1] # "+"
         THEN AccountPlus_no_search(list, toks, i + 1)
         ELSE AccountPlus_no_search(Append(list, <<"", toks[i][2]>>), toks, i + 1)

RECURSIVE AccountPlus(_, _, _)
AccountPlus(list, toks, i) ==
    IF i > Len(toks) THEN list
    ELSE IF toks[i][1] # "+" \/ Member(list, <<"", toks[i][2]>>)
         THEN AccountPlus(list, toks, i + 1)
         ELSE AccountPlus(Append(list, <<"", toks[i][2]>>), toks, i + 1)

_update_account_list(resv, accounts) ==
    LET n == IF accounts = NULL_LIST THEN 0 ELSE Len(accounts)
        minus_account == \E k \in 1 .. n : accounts[k][1] = "-"
        plus_account == \E k \in 1 .. n : accounts[k][1] = "+"
        inval == [rc |-> ESLURM_INVALID_BANK_ACCOUNT, resv |-> resv]
    IN  IF accounts = NULL_LIST THEN inval
        ELSE IF \E k \in 1 .. n : MixedAt(accounts, k) THEN inval
        ELSE IF ~plus_account /\ ~minus_account
        THEN [rc |-> SLURM_SUCCESS,
              resv |-> [resv EXCEPT !.accounts = accounts,
                                    !.account_list = accounts,
                                    !.account_cnt = n]]
        ELSE IF minus_account /\ resv.account_cnt = 0 THEN inval
        ELSE With(IF minus_account
                  THEN AccountMinus(resv.account_list, accounts, 1)
                  ELSE [ok |-> TRUE, list |-> resv.account_list], LAMBDA m :
             With([resv EXCEPT !.account_list = m.list,
                               !.account_cnt = Len(m.list)], LAMBDA r1 :
               IF ~m.ok
               THEN [rc |-> ESLURM_INVALID_BANK_ACCOUNT, resv |-> r1]
               ELSE With(IF minus_account
                         THEN [r1 EXCEPT !.accounts = JoinAccounts(m.list)]
                         ELSE r1, LAMBDA r2 :
                    With(AccountPlus(r2.account_list, accounts, 1), LAMBDA l3 :
                      [rc |-> SLURM_SUCCESS,
                       resv |-> IF plus_account
                                THEN [r2 EXCEPT !.account_list = l3,
                                                !.account_cnt = Len(l3),
                                                !.accounts = JoinAccounts(l3)]
                                ELSE r2]))))

\* the name u_name[i] is read after the buffer it points into was freed:
\* it reads as the name ("intact") or as something else ("clobbered")
UafOutcomes == {"intact", "clobbered"}

UName(name, uaf) == IF uaf = "intact" THEN <<"", name>> ELSE GARBAGE

\* the loop over the '-' tokens: [ok, list, users, touched]
RECURSIVE UidMinus(_, _, _, _, _, _)
UidMinus(list, users, toks, i, touched, uaf) ==
    IF i > Len(toks)
    THEN [ok |-> TRUE, list |-> list, users |-> users]
    ELSE IF toks[i][1] # "-" THEN UidMinus(list, users, toks, i + 1, touched, uaf)
    ELSE LET uid == uid_from_string("", toks[i][2])
             nm == UName(toks[i][2], uaf)
         IN IF Member(list, uid)
            THEN UidMinus(RemoveFirst(list, uid),
                          IF Member(users, nm) THEN RemoveFirst(users, nm) ELSE users,
                          toks, i + 1, TRUE, uaf)
            ELSE [ok |-> FALSE, list |-> list,
                  \* inval: xfree(tmp), and tmp is resv_ptr->users by now
                  users |-> IF touched THEN FREED_LIST ELSE users]

\* the loop over the '+' tokens: [list, users]
RECURSIVE UidPlus(_, _, _, _, _)
UidPlus(list, users, toks, i, uaf) ==
    IF i > Len(toks) THEN [list |-> list, users |-> users]
    ELSE LET uid == uid_from_string("", toks[i][2])
         IN IF toks[i][1] # "+" \/ Member(list, uid)
            THEN UidPlus(list, users, toks, i + 1, uaf)
            ELSE UidPlus(Append(list, uid),
                         IF users = NULL_LIST THEN <<UName(toks[i][2], uaf)>>
                         ELSE Append(users, UName(toks[i][2], uaf)),
                         toks, i + 1, uaf)

_update_uid_list(resv, users, uaf) ==
    LET n == IF users = NULL_LIST THEN 0 ELSE Len(users)
        minus_user == \E k \in 1 .. n : users[k][1] = "-"
        plus_user == \E k \in 1 .. n : users[k][1] = "+"
        inval == [rc |-> ESLURM_USER_ID_MISSING, resv |-> resv]
    IN  IF users = NULL_LIST THEN inval
        ELSE IF \E k \in 1 .. n :
                    MixedAt(users, k) \/ uid_from_string("", users[k][2]) = -1
        THEN inval
        ELSE IF ~plus_user /\ ~minus_user
        THEN [rc |-> SLURM_SUCCESS,
              resv |-> [resv EXCEPT
                   !.users = users,
                   !.user_cnt = n,
                   !.user_list = [k \in 1 .. n |->
                                      uid_from_string("", users[k][2])]]]
        ELSE With(IF minus_user
                  THEN UidMinus(resv.user_list, resv.users, users, 1, FALSE, uaf)
                  ELSE [ok |-> TRUE, list |-> resv.user_list,
                        users |-> resv.users], LAMBDA m :
             With([resv EXCEPT !.user_list = m.list,
                               !.user_cnt = Len(m.list),
                               !.users = m.users], LAMBDA r1 :
               IF ~m.ok THEN [rc |-> ESLURM_USER_ID_MISSING, resv |-> r1]
               ELSE With(UidPlus(r1.user_list, r1.users, users, 1, uaf), LAMBDA p :
                      [rc |-> SLURM_SUCCESS,
                       resv |-> IF plus_user
                                THEN [r1 EXCEPT !.user_list = p.list,
                                                !.user_cnt = Len(p.list),
                                                !.users = p.users]
                                ELSE r1])))

(***************************************************************************)
(* Overlap test, node selection, cpu count                                 *)
(***************************************************************************)
\* the entry collides also when its window only touches the other
OverlapsEntry_closed(resv, start_time, end_time, node_bitmap) ==
    ~(\/ resv.end_time < start_time
      \/ resv.start_time > end_time
      \/ resv.node_bitmap = NULL_BITMAP
      \/ bit_overlap(resv.node_bitmap, node_bitmap) = 0)

\* the entry collides also when its window begins where the other ends
OverlapsEntry_closed_start(resv, start_time, end_time, node_bitmap) ==
    ~(\/ resv.end_time <= start_time
      \/ resv.start_time > end_time
      \/ resv.node_bitmap = NULL_BITMAP
      \/ bit_overlap(resv.node_bitmap, node_bitmap) = 0)

\* the test of one list entry in _resv_overlap(): the entry collides
OverlapsEntry(resv, start_time, end_time, node_bitmap) ==
    ~(\/ resv.end_time <= start_time
      \/ resv.start_time >= end_time
      \/ resv.node_bitmap = NULL_BITMAP
      \/ bit_overlap(resv.node_bitmap, node_bitmap) = 0)

\* the loop ends after the first entry of the list
_resv_overlap_first_entry(rl, start_time, end_time, node_bitmap, this) ==
    /\ node_bitmap # NULL_BITMAP
    /\ Len(rl) > 0 /\ this # 1
    /\ ~(\/ rl[1].end_time <= start_time
         \/ rl[1].start_time >= end_time
         \/ rl[1].node_bitmap = NULL_BITMAP
         \/ bit_overlap(rl[1].node_bitmap, node_bitmap) = 0)

\* _resv_overlap() over the list rl; this is the index of the record under
\* update (0 for none), which is skipped
_resv_overlap(rl, start_time, end_time, node_bitmap, this) ==
    IF node_bitmap = NULL_BITMAP THEN FALSE
    ELSE \E k \in 1 .. Len(rl) :
            k # this /\ OverlapsEntry(rl[k], start_time, end_time, node_bitmap)

RECURSIVE SumCpus(_)
SumCpus(b) ==
    IF b = {} THEN 0
    ELSE LET m == CHOOSE x \in b : TRUE IN NodeCpus(m) + SumCpus(b \ {m})

_set_cpu_cnt(resv) ==
    IF resv.node_bitmap = NULL_BITMAP THEN resv
    ELSE [resv EXCEPT !.cpu_cnt = SumCpus(resv.node_bitmap)]

\* the nodes of the partition no reservation of rl holds in the window
\* the registry after the loop over it: the bitmap of every record whose
\* window meets the request's was inverted in place, and inverted again
SelectScan(rl, start_time, end_time) ==
    [k \in 1 .. Len(rl) |->
        IF \/ rl[k].node_bitmap = NULL_BITMAP
           \/ rl[k].start_time >= end_time
           \/ rl[k].end_time <= start_time
        THEN rl[k]
        ELSE [rl[k] EXCEPT !.node_bitmap = bit_not(bit_not(rl[k].node_bitmap))]]

\* the candidate nodes when only the records whose window lies inside the
\* request's keep their nodes
SelectAvail_any_window(rl, part, start_time, end_time, features) ==
    LET reserved == UNION {rl[k].node_bitmap : k \in
                       {j \in 1 .. Len(rl) :
                            /\ rl[j].node_bitmap # NULL_BITMAP
                            /\ rl[j].start_time >= start_time
                            /\ rl[j].end_time <= end_time}}
        free == PartNodes(part) \ reserved
        feat == IF features = NULL THEN free
                ELSE {i \in free : features \in NodeFeatures(i)}
    IN feat \cap avail_node_bitmap

SelectAvail(rl, part, start_time, end_time, features) ==
    LET reserved == UNION {rl[k].node_bitmap : k \in
                       {j \in 1 .. Len(rl) :
                            ~(\/ rl[j].node_bitmap = NULL_BITMAP
                              \/ rl[j].start_time >= end_time
                              \/ rl[j].end_time <= start_time)}}
        free == PartNodes(part) \ reserved
        feat == IF features = NULL THEN free
                ELSE {i \in free : features \in NodeFeatures(i)}
    IN feat \cap avail_node_bitmap

\* the pick without the preference for idle nodes
SelectPick_any(node_bitmap, node_cnt) ==
    bit_pick_cnt(node_bitmap, node_cnt)

\* the pick among the nodes left: idle nodes first
SelectPick(node_bitmap, node_cnt) ==
    LET i == bit_overlap(node_bitmap, idle_node_bitmap)
    IN  IF bit_set_count(node_bitmap) < node_cnt THEN NULL_BITMAP
        ELSE IF i >= node_cnt
        THEN bit_pick_cnt(node_bitmap \cap idle_node_bitmap, node_cnt)
        ELSE (node_bitmap \cap idle_node_bitmap) \cup
             bit_pick_cnt(node_bitmap \ idle_node_bitmap, node_cnt - i)

\* idle_node_bitmap after the pick: inverted and inverted again when the
\* idle nodes were too few
SelectIdle(node_bitmap, node_cnt) ==
    IF bit_overlap(node_bitmap, idle_node_bitmap) >= node_cnt
    THEN idle_node_bitmap
    ELSE bit_not(bit_not(idle_node_bitmap))

\* _select_nodes(): [rc, part_ptr, partition, bitmap, node_list, resv_list,
\* idle]; partition and node_list are what the call leaves in the request,
\* resv_list and idle the registry and idle_node_bitmap as it leaves them
_select_nodes(rl, start_time, end_time, features, node_cnt, part_ptr, partition) ==
    LET part == IF part_ptr = NULL THEN default_part_loc ELSE part_ptr
        pname == IF part_ptr = NULL THEN part ELSE partition
    IN  IF part = NULL
        THEN [rc |-> ESLURM_DEFAULT_PARTITION_NOT_SET, part_ptr |-> NULL,
              partition |-> partition, bitmap |-> NULL_BITMAP,
              node_list |-> NULL_HOSTS, resv_list |-> rl,
              idle |-> idle_node_bitmap]
        ELSE With(SelectPick(SelectAvail(rl, part, start_time, end_time, features),
                             node_cnt), LAMBDA picked :
               IF picked = NULL_BITMAP
               THEN [rc |-> ESLURM_TOO_MANY_REQUESTED_NODES, part_ptr |-> part,
                     partition |-> pname, bitmap |-> NULL_BITMAP,
                     node_list |-> NULL_HOSTS,
                     resv_list |-> SelectScan(rl, start_time, end_time),
                     idle |-> idle_node_bitmap]
               ELSE [rc |-> SLURM_SUCCESS, part_ptr |-> part, partition |-> pname,
                     bitmap |-> picked, node_list |-> bitmap2node_name(picked),
                     resv_list |-> SelectScan(rl, start_time, end_time),
                     idle |-> SelectIdle(SelectAvail(rl, part, start_time,
                                                     end_time, features),
                                         node_cnt)])

(***************************************************************************)
(* create_resv                                                             *)
(***************************************************************************)
\* 0xffffff00, scaled
TOP_SUFFIX_WRAP == 1999999000

\* duration * 60 in 32 bits: NO_VAL * 60 wraps to 2^32 - 120
DurationSecs(duration) ==
    IF duration = NO_VAL THEN INFINITE - 119 ELSE duration * MinuteSecs

Names(rl) == {rl[k].name : k \in 1 .. Len(rl)}

\* the result of strcmp is read the wrong way round
_find_resv_name_inverted(resv, key) == resv.name # key

\* _find_resv_name(): the record has the name key
_find_resv_name(resv, key) == resv.name = key

\* list_find_first(resv_list, _find_resv_name, key): the index of the first
\* record that matches, 0 for none
list_find_first(rl, key) ==
    IF \E k \in 1 .. Len(rl) : _find_resv_name(rl[k], key)
    THEN CHOOSE k \in 1 .. Len(rl) :
             /\ _find_resv_name(rl[k], key)
             /\ \A j \in 1 .. (k - 1) : ~_find_resv_name(rl[j], key)
    ELSE 0

\* _generate_resv_name(): the first token of accounts, else of users, then
\* "_" and top_suffix
_generate_resv_name(accounts, users, suffix) ==
    LET key == IF accounts # NULL_LIST /\ Len(accounts) > 0 THEN accounts
               ELSE users
    IN <<IF Len(key) = 0 THEN "" ELSE TokText(key[1]), suffix>>

\* the steps of create_resv up to the node set: [rc, start, end, ...]
CreateParse(rl, req) ==
    With(IF req.start_time # NO_VAL THEN req.start_time ELSE now, LAMBDA start :
    With(IF req.end_time # NO_VAL THEN req.end_time
         ELSE IF req.duration # 0 THEN start + DurationSecs(req.duration)
         ELSE INFINITE, LAMBDA end :
    With(IF req.partition # NULL THEN find_part_record(req.partition)
         ELSE NULL, LAMBDA part_ptr :
    With(IF req.accounts # NULL_LIST THEN _build_account_list(req.accounts)
         ELSE [rc |-> SLURM_SUCCESS, cnt |-> 0, list |-> <<>>], LAMBDA acct :
    With(IF req.users # NULL_LIST THEN _build_uid_list(req.users)
         ELSE [rc |-> SLURM_SUCCESS, cnt |-> 0, list |-> <<>>], LAMBDA uid :
    With([rc |-> SLURM_SUCCESS, start_time |-> start, end_time |-> end,
          part_ptr |-> part_ptr, partition |-> req.partition,
          account_cnt |-> acct.cnt, account_list |-> acct.list,
          user_cnt |-> uid.cnt, user_list |-> uid.list,
          node_bitmap |-> NULL_BITMAP, node_list |-> req.node_list,
          node_cnt |-> req.node_cnt], LAMBDA base :
      LET fail(rc) == [base EXCEPT !.rc = rc]
      IN  IF req.start_time # NO_VAL /\ req.start_time < now - GraceSecs
          THEN fail(ESLURM_INVALID_TIME_VALUE)
          ELSE IF req.end_time # NO_VAL /\ req.end_time < now - GraceSecs
          THEN fail(ESLURM_INVALID_TIME_VALUE)
          ELSE IF req.partition # NULL /\ part_ptr = NULL
          THEN fail(ESLURM_INVALID_PARTITION_NAME)
          ELSE IF req.accounts = NULL_LIST /\ req.users = NULL_LIST
          THEN fail(ESLURM_INVALID_BANK_ACCOUNT)
          ELSE IF acct.rc # SLURM_SUCCESS THEN fail(acct.rc)
          ELSE IF uid.rc # SLURM_SUCCESS THEN fail(uid.rc)
          ELSE IF req.node_list # NULL_HOSTS
          THEN With(IF req.node_list = ALL_HOSTS THEN [rc |-> 0, bitmap |-> Nodes]
                    ELSE node_name2bitmap(req.node_list), LAMBDA n2b :
                 IF n2b.rc # 0 THEN fail(ESLURM_INVALID_NODE_NAME)
                 ELSE IF _resv_overlap(rl, start, end, n2b.bitmap, 0)
                 THEN fail(ESLURM_INVALID_TIME_VALUE)
                 ELSE [base EXCEPT !.node_bitmap = n2b.bitmap,
                                   !.node_cnt = bit_set_count(n2b.bitmap)])
          ELSE IF req.node_cnt = NO_VAL THEN fail(ESLURM_INVALID_NODE_NAME)
          ELSE With(_select_nodes(rl, start, end, req.features, req.node_cnt,
                                  part_ptr, req.partition), LAMBDA sel :
                 IF sel.rc # SLURM_SUCCESS THEN fail(sel.rc)
                 ELSE [base EXCEPT !.node_bitmap = sel.bitmap,
                                   !.node_list = sel.node_list,
                                   !.part_ptr = sel.part_ptr,
                                   !.partition = sel.partition])))))))

\* top_suffix after the id of a new reservation was drawn
NextSuffix(suffix) == IF suffix > TOP_SUFFIX_WRAP THEN 1 ELSE suffix + 1

\* the record create_resv builds from a parsed request
NewResv(req, p, name, suffix) ==
    _set_cpu_cnt(
      [name |-> name, resv_id |-> suffix,
       accounts |-> req.accounts, account_cnt |-> p.account_cnt,
       account_list |-> p.account_list,
       users |-> req.users, user_cnt |-> p.user_cnt, user_list |-> p.user_list,
       features |-> req.features,
       flags |-> IF req.flags = NO_VAL_FLAGS THEN {} ELSE req.flags,
       partition |-> p.partition, part_ptr |-> p.part_ptr,
       start_time |-> p.start_time, start_time_prev |-> p.start_time,
       end_time |-> p.end_time,
       node_list |-> p.node_list, node_bitmap |-> p.node_bitmap,
       node_cnt |-> p.node_cnt, cpu_cnt |-> 0, job_cnt |-> 0])

\* the record is appended to the list before the name is looked up
create_resv_links_early(rl, suffix, req) ==
    With(CreateParse(rl, req), LAMBDA p :
    With(NextSuffix(suffix), LAMBDA id :
    With(_generate_resv_name(req.accounts, req.users, id), LAMBDA gen :
    With(Append(rl, NewResv(req, p, IF req.name # NULL_NAME THEN req.name
                                    ELSE gen, id)), LAMBDA linked :
      LET out(rc, l, s, c) == [rc |-> rc, resv_list |-> l, top_suffix |-> s,
                               ctld |-> c]
      IN  IF p.rc # SLURM_SUCCESS THEN out(p.rc, rl, suffix, "running")
          ELSE IF req.name # NULL_NAME /\ list_find_first(rl, req.name) # 0
          THEN out(ESLURM_RESERVATION_INVALID, linked, id, "running")
          ELSE IF req.name = NULL_NAME /\ req.accounts = <<>>
                  /\ req.users = NULL_LIST
          THEN out(NULL, rl, id, "crashed")
          ELSE IF req.name = NULL_NAME /\ list_find_first(rl, gen) # 0
          THEN out(NULL, rl, id, "hung")
          ELSE out(SLURM_SUCCESS, linked, id, "running")))))

\* create_resv(): [rc, resv_list, top_suffix, ctld]
create_resv(rl, suffix, req) ==
    With(CreateParse(rl, req), LAMBDA p :
    With(NextSuffix(suffix), LAMBDA id :
    With(_generate_resv_name(req.accounts, req.users, id), LAMBDA gen :
      LET name == IF req.name # NULL_NAME THEN req.name ELSE gen
          out(rc, l, s, c) == [rc |-> rc, resv_list |-> l, top_suffix |-> s,
                               ctld |-> c]
      IN  IF p.rc # SLURM_SUCCESS THEN out(p.rc, rl, suffix, "running")
          ELSE IF req.name # NULL_NAME /\ list_find_first(rl, req.name) # 0
          THEN out(ESLURM_RESERVATION_INVALID, rl, id, "running")
          ELSE IF req.name = NULL_NAME /\ req.accounts = <<>>
                  /\ req.users = NULL_LIST
          \* strchr(NULL, ','): the key of the name is a NULL pointer
          THEN out(NULL, rl, id, "crashed")
          ELSE IF req.name = NULL_NAME /\ list_find_first(rl, gen) # 0
          \* the same name is generated and found again, for ever
          THEN out(NULL, rl, id, "hung")
          ELSE out(SLURM_SUCCESS, Append(rl, NewResv(req, p, name, id)), id,
                   "running"))))

(***************************************************************************)
(* update_resv                                                             *)
(***************************************************************************)
ReplaceAt(rl, idx, resv) == [rl EXCEPT ![idx] = resv]

\* the flag bits of an update request applied to the flags of a record
UpdateFlags(flags, req_flags) ==
    LET f1 == IF RESERVE_FLAG_MAINT \in req_flags
              THEN flags \cap {RESERVE_FLAG_MAINT} ELSE flags
        f2 == IF RESERVE_FLAG_NO_MAINT \in req_flags
              THEN f1 \ {RESERVE_FLAG_MAINT} ELSE f1
        f3 == IF RESERVE_FLAG_DAILY \in req_flags
              THEN f2 \cap {RESERVE_FLAG_DAILY} ELSE f2
        f4 == IF RESERVE_FLAG_NO_DAILY \in req_flags
              THEN f3 \ {RESERVE_FLAG_DAILY} ELSE f3
        f5 == IF RESERVE_FLAG_WEEKLY \in req_flags
              THEN f4 \cap {RESERVE_FLAG_WEEKLY} ELSE f4
        f6 == IF RESERVE_FLAG_NO_WEEKLY \in req_flags
              THEN f5 \ {RESERVE_FLAG_WEEKLY} ELSE f5
    IN IF req_flags = NO_VAL_FLAGS THEN flags ELSE f6

\* the decrease of _resize_resv(): idle nodes go first, then the record
\* keeps the node_cnt lowest nodes
ResizeShrink(resv, node_cnt) ==
    LET delta == resv.node_cnt - node_cnt
        idle == resv.node_bitmap \cap idle_node_bitmap
        i == bit_set_count(idle)
    IN With(IF i = 0 THEN resv.node_bitmap
            ELSE IF i > delta
            THEN resv.node_bitmap \ bit_pick_cnt(idle, delta)
            ELSE resv.node_bitmap \ idle_node_bitmap, LAMBDA b1 :
       With(IF i = 0 THEN delta
            ELSE IF i > delta THEN 0
            ELSE bit_set_count(b1) - node_cnt, LAMBDA delta1 :
       With(IF delta1 > 0 THEN bit_pick_cnt(b1, node_cnt) ELSE b1, LAMBDA b2 :
         [resv EXCEPT !.node_bitmap = b2,
                      !.node_list = bitmap2node_name(b2),
                      !.node_cnt = node_cnt])))

\* _resize_resv() of the record at idx of rl: [rc, resv]
_resize_resv(rl, idx, node_cnt) ==
    LET resv == rl[idx]
        delta_node_cnt == resv.node_cnt - node_cnt
    IN  IF delta_node_cnt = 0 THEN [rc |-> SLURM_SUCCESS, resv |-> resv]
        ELSE IF delta_node_cnt > 0
        THEN [rc |-> SLURM_SUCCESS, resv |-> ResizeShrink(resv, node_cnt)]
        ELSE With(_select_nodes(rl, resv.start_time, resv.end_time,
                                resv.features, 0 - delta_node_cnt,
                                resv.part_ptr, NULL), LAMBDA sel :
               IF sel.rc = SLURM_SUCCESS
               THEN [rc |-> SLURM_SUCCESS,
                     resv |-> [resv EXCEPT
                          !.part_ptr = sel.part_ptr,
                          !.node_bitmap = resv.node_bitmap \cup sel.bitmap,
                          !.node_list =
                              bitmap2node_name(resv.node_bitmap \cup sel.bitmap),
                          !.node_cnt = node_cnt]]
               ELSE [rc |-> sel.rc,
                     resv |-> [resv EXCEPT !.part_ptr = sel.part_ptr]])

\* update_resv up to the times: flags, partition, accounts, features, users
\* [rc, resv]
UpdateIdentity(resv, req, uaf) ==
    With([resv EXCEPT !.flags = UpdateFlags(resv.flags, req.flags)], LAMBDA r1 :
    With(IF req.partition = "" THEN [r1 EXCEPT !.partition = NULL,
                                               !.part_ptr = NULL]
         ELSE IF req.partition # NULL
         THEN [r1 EXCEPT !.partition = req.partition,
                         !.part_ptr = find_part_record(req.partition)]
         ELSE r1, LAMBDA r2 :
    With(IF req.accounts # NULL_LIST THEN _update_account_list(r2, req.accounts)
         ELSE [rc |-> SLURM_SUCCESS, resv |-> r2], LAMBDA a :
    With(IF req.features # NULL THEN [a.resv EXCEPT !.features = req.features]
         ELSE a.resv, LAMBDA r4 :
      IF req.partition \notin {NULL, ""} /\ find_part_record(req.partition) = NULL
      THEN [rc |-> ESLURM_INVALID_PARTITION_NAME, resv |-> r1]
      ELSE IF a.rc # SLURM_SUCCESS THEN a
      ELSE IF req.users # NULL_LIST THEN _update_uid_list(r4, req.users, uaf)
      ELSE [rc |-> SLURM_SUCCESS, resv |-> r4]))))

\* the start and end time of an update: [rc, resv]
UpdateTimes(resv, req) ==
    LET r1 == IF req.start_time # NO_VAL
              THEN [resv EXCEPT !.start_time_prev = resv.start_time,
                                !.start_time = req.start_time]
              ELSE resv
        r2 == IF req.end_time # NO_VAL THEN [r1 EXCEPT !.end_time = req.end_time]
              ELSE r1
        r3 == IF req.duration # NO_VAL
              THEN [r2 EXCEPT !.end_time = r2.start_time + DurationSecs(req.duration)]
              ELSE r2
    IN  IF req.start_time # NO_VAL /\ req.start_time < now - GraceSecs
        THEN [rc |-> ESLURM_INVALID_TIME_VALUE, resv |-> resv]
        ELSE IF req.end_time # NO_VAL /\ req.end_time < now - GraceSecs
        THEN [rc |-> ESLURM_INVALID_TIME_VALUE, resv |-> r1]
        ELSE [rc |-> SLURM_SUCCESS, resv |-> r3]

\* the node list and node count of an update, for the record at idx of rl,
\* with the start and end time it had: [rc, resv, old, old_node_list,
\* old_node_bitmap]; old says that old_node_list is set
UpdateNodes(rl, idx, req, old_start_time) ==
    With(rl[idx], LAMBDA resv :
    With(IF req.node_list = ALL_HOSTS THEN [rc |-> 0, bitmap |-> Nodes]
         ELSE node_name2bitmap(req.node_list), LAMBDA n2b :
    With(IF req.node_list # NULL_HOSTS
         THEN [resv EXCEPT !.node_list = req.node_list,
                           !.node_bitmap = n2b.bitmap]
         ELSE resv, LAMBDA r1 :
      LET out(rc, r, o, l, b) == [rc |-> rc, resv |-> r, old |-> o,
                                  old_node_list |-> l, old_node_bitmap |-> b]
      IN  IF req.node_list # NULL_HOSTS /\ n2b.rc # 0
          THEN out(ESLURM_INVALID_NODE_NAME,
                   [resv EXCEPT !.start_time = old_start_time,
                                !.end_time = old_start_time],
                   FALSE, NULL_HOSTS, NULL_BITMAP)
          ELSE IF req.node_cnt # NO_VAL
          THEN With(_resize_resv(ReplaceAt(rl, idx, r1), idx, req.node_cnt),
                    LAMBDA sized :
                 out(sized.rc, sized.resv, TRUE, r1.node_list, r1.node_bitmap))
          ELSE out(SLURM_SUCCESS, r1, req.node_list # NULL_HOSTS,
                   resv.node_list, resv.node_bitmap))))

\* the last step of update_resv: the overlap test, and what follows it
UpdateCommit(rl, idx, n, old_start_time, old_end_time) ==
    LET resv == n.resv
    IN  IF _resv_overlap(rl, resv.start_time, resv.end_time, resv.node_bitmap, idx)
        THEN [rc |-> ESLURM_INVALID_TIME_VALUE,
              resv |-> IF n.old
                       THEN [resv EXCEPT !.start_time = old_start_time,
                                         !.end_time = old_end_time,
                                         !.node_list = n.old_node_list,
                                         !.node_bitmap = n.old_node_bitmap]
                       ELSE [resv EXCEPT !.start_time = old_start_time,
                                         !.end_time = old_end_time]]
        ELSE IF n.old
        THEN [rc |-> SLURM_SUCCESS,
              resv |-> _set_cpu_cnt([resv EXCEPT
                           !.node_cnt = bit_set_count(resv.node_bitmap)])]
        ELSE [rc |-> SLURM_SUCCESS, resv |-> resv]

\* update_resv(): [rc, resv_list, ctld]
update_resv(rl, req, uaf) ==
    With(list_find_first(rl, req.name), LAMBDA idx :
      LET out(rc, r, s) == [rc |-> rc, resv_list |-> ReplaceAt(rl, idx, r),
                            ctld |-> s]
      IN  IF req.name = NULL_NAME \/ idx = 0
          THEN [rc |-> ESLURM_RESERVATION_INVALID, resv_list |-> rl,
                ctld |-> "running"]
          ELSE
          With(UpdateIdentity(rl[idx], req, uaf), LAMBDA i :
          With(UpdateTimes(i.resv, req), LAMBDA t :
          With(UpdateNodes(ReplaceAt(rl, idx, t.resv), idx, req,
                           i.resv.start_time), LAMBDA n :
            IF i.rc # SLURM_SUCCESS THEN out(i.rc, i.resv, "running")
            ELSE IF t.rc # SLURM_SUCCESS THEN out(t.rc, t.resv, "running")
            ELSE IF n.rc # SLURM_SUCCESS THEN out(n.rc, n.resv, "running")
            ELSE IF n.old /\ n.resv.node_bitmap = NULL_BITMAP
            \* bit_set_count() of the NULL bitmap bit_pick_cnt() returned
            THEN out(NULL, n.resv, "crashed")
            ELSE With(UpdateCommit(rl, idx, n, i.resv.start_time,
                                   i.resv.end_time), LAMBDA c :
                   out(c.rc, c.resv, "running"))))))

(***************************************************************************)
(* delete_resv and the jobs                                                *)
(***************************************************************************)
SLURM_ERROR == "SLURM_ERROR"

\* a job's resv_ptr is NULL_NAME, the name of the record it points to, or
\* DANGLING once that record was freed
DANGLING == <<"DANGLING", 0>>

RemoveAt(rl, idx) ==
    [j \in 1 .. (Len(rl) - 1) |-> IF j < idx THEN rl[j] ELSE rl[j + 1]]

\* the job records after the records named in freed were freed
Freed(jobs, freed) ==
    [j \in 1 .. Len(jobs) |->
        IF jobs[j].resv_ptr \in freed THEN [jobs[j] EXCEPT !.resv_ptr = DANGLING]
        ELSE jobs[j]]

\* a finished job counts as well
_is_resv_used_any_job(jobs, resv) ==
    \E j \in 1 .. Len(jobs) : jobs[j].resv_id = resv.resv_id

_is_resv_used(jobs, resv) ==
    \E j \in 1 .. Len(jobs) :
        ~jobs[j].finished /\ jobs[j].resv_id = resv.resv_id

\* the loop of delete_resv over the list: the index of the first record
\* whose name is name, 0 for none
DeleteScan(rl, name) ==
    IF name \in Names(rl)
    THEN CHOOSE k \in 1 .. Len(rl) :
             rl[k].name = name /\ \A j \in 1 .. (k - 1) : rl[j].name # name
    ELSE 0

\* delete_resv(): [rc, resv_list]; acct_rc is what the accounting storage
\* answers to the removal
delete_resv(rl, jobs, name, acct_rc) ==
    With(DeleteScan(rl, name), LAMBDA idx :
      IF idx = 0 THEN [rc |-> ESLURM_RESERVATION_INVALID, resv_list |-> rl]
      ELSE IF _is_resv_used(jobs, rl[idx])
      THEN [rc |-> ESLURM_RESERVATION_BUSY, resv_list |-> rl]
      ELSE [rc |-> acct_rc, resv_list |-> RemoveAt(rl, idx)])

\* the account of the job is not looked at
_valid_job_access_resv_users_only(job, resv) ==
    IF \E i \in 1 .. resv.user_cnt : job.user_id = resv.user_list[i]
    THEN SLURM_SUCCESS
    ELSE ESLURM_RESERVATION_ACCESS

_valid_job_access_resv(job, resv) ==
    IF \/ \E i \in 1 .. resv.user_cnt : job.user_id = resv.user_list[i]
       \/ /\ job.account # NULL
          /\ \E i \in 1 .. resv.account_cnt : TokText(resv.account_list[i]) = job.account
    THEN SLURM_SUCCESS
    ELSE ESLURM_RESERVATION_ACCESS

\* validate_job_resv(): [rc, job]
\* resv_id and resv_flags are set before the access check
validate_job_resv_sets_first(rl, job) ==
    With(list_find_first(rl, job.resv_name), LAMBDA idx :
      IF job.resv_name = NULL_NAME \/ job.resv_name = <<"", 0>>
      THEN [rc |-> SLURM_SUCCESS,
            job |-> [job EXCEPT !.resv_name = NULL_NAME, !.resv_id = 0,
                                !.resv_flags = {}]]
      ELSE IF idx = 0 THEN [rc |-> ESLURM_RESERVATION_INVALID, job |-> job]
      ELSE [rc |-> _valid_job_access_resv(job, rl[idx]),
            job |-> [job EXCEPT !.resv_id = rl[idx].resv_id,
                                !.resv_flags = rl[idx].flags]])

validate_job_resv(rl, job) ==
    With(list_find_first(rl, job.resv_name), LAMBDA idx :
      IF job.resv_name = NULL_NAME \/ job.resv_name = <<"", 0>>
      THEN [rc |-> SLURM_SUCCESS,
            job |-> [job EXCEPT !.resv_name = NULL_NAME, !.resv_id = 0,
                                !.resv_flags = {}]]
      ELSE IF idx = 0 THEN [rc |-> ESLURM_RESERVATION_INVALID, job |-> job]
      ELSE With(_valid_job_access_resv(job, rl[idx]), LAMBDA rc :
             IF rc = SLURM_SUCCESS
             THEN [rc |-> rc, job |-> [job EXCEPT !.resv_id = rl[idx].resv_id,
                                                  !.resv_flags = rl[idx].flags]]
             ELSE [rc |-> rc, job |-> job]))

(***************************************************************************)
(* The sweep of the jobs over the reservations                             *)
(***************************************************************************)
\* slurmctld_conf.resv_over_run, minutes
ResvOverRunConf == 1

\* seconds of a year: what an INFINITE over run or time limit counts as
YearSecs == 365 * 24 * 60 * 60

begin_job_resv_check(rl) == [k \in 1 .. Len(rl) |-> [rl[k] EXCEPT !.job_cnt = 0]]

\* job_resv_check() of a job whose resv_ptr, after the lookup by name,
\* points to the record at idx of rl: [rc, resv_list]
JobResvCount(rl, idx, over_run) ==
    [rc |-> IF rl[idx].end_time < now + over_run THEN ESLURM_INVALID_TIME_VALUE
            ELSE SLURM_SUCCESS,
     resv_list |-> [rl EXCEPT ![idx].job_cnt = rl[idx].job_cnt + 1]]

RECURSIVE Purge(_, _)
Purge(rl, t) ==
    IF Len(rl) = 0 THEN <<>>
    ELSE IF Head(rl).job_cnt = 0 /\ Head(rl).end_time <= t THEN Purge(Tail(rl), t)
    ELSE <<Head(rl)>> \o Purge(Tail(rl), t)

fini_job_resv_check(rl) == Purge(rl, now)

(***************************************************************************)
(* job_test_resv                                                           *)
(***************************************************************************)
\* the retries of the loop of job_test_resv
TestRetries == 10

\* the time the job runs for, seconds: its time limit, or that of its
\* partition
JobDuration(job) ==
    IF job.time_limit = INFINITE THEN YearSecs
    ELSE IF job.time_limit # NO_VAL THEN job.time_limit * MinuteSecs
    ELSE IF job.part_max_time = INFINITE THEN YearSecs
    ELSE job.part_max_time * MinuteSecs

\* the outcome of a job_test_resv call: whens is the value of *when at the
\* start of each pass over the list
TestOut(rc, job, when, node_bitmap, whens, c) ==
    [rc |-> rc, job |-> job, when |-> when, node_bitmap |-> node_bitmap,
     whens |-> whens, ctld |-> c]

\* a job is put on hold when *when is the end of its reservation
TestNamed_closed_end(rl, job, when) ==
    With(list_find_first(rl, job.resv_name), LAMBDA idx :
    With([job EXCEPT !.resv_ptr = IF idx = 0 THEN NULL_NAME ELSE rl[idx].name],
         LAMBDA j :
      IF idx = 0
      THEN TestOut(ESLURM_RESERVATION_INVALID, j, when, NULL_BITMAP, <<>>,
                   "running")
      ELSE IF _valid_job_access_resv(j, rl[idx]) # SLURM_SUCCESS
      THEN TestOut(ESLURM_RESERVATION_ACCESS, j, when, NULL_BITMAP, <<>>,
                   "running")
      ELSE IF when < rl[idx].start_time
      THEN TestOut(ESLURM_INVALID_TIME_VALUE, j, rl[idx].start_time,
                   NULL_BITMAP, <<>>, "running")
      ELSE IF when >= rl[idx].end_time
      THEN TestOut(ESLURM_RESERVATION_INVALID, [j EXCEPT !.priority = 0],
                   rl[idx].end_time, NULL_BITMAP, <<>>, "running")
      ELSE IF rl[idx].node_bitmap = NULL_BITMAP
      THEN TestOut(NULL, j, when, NULL_BITMAP, <<>>, "crashed")
      ELSE TestOut(SLURM_SUCCESS, j, when, rl[idx].node_bitmap, <<>>,
                   "running")))

\* job_test_resv() of a job with a reservation name
TestNamed(rl, job, when) ==
    With(list_find_first(rl, job.resv_name), LAMBDA idx :
    With([job EXCEPT !.resv_ptr = IF idx = 0 THEN NULL_NAME ELSE rl[idx].name],
         LAMBDA j :
      IF idx = 0
      THEN TestOut(ESLURM_RESERVATION_INVALID, j, when, NULL_BITMAP, <<>>,
                   "running")
      ELSE IF _valid_job_access_resv(j, rl[idx]) # SLURM_SUCCESS
      THEN TestOut(ESLURM_RESERVATION_ACCESS, j, when, NULL_BITMAP, <<>>,
                   "running")
      ELSE IF when < rl[idx].start_time
      THEN TestOut(ESLURM_INVALID_TIME_VALUE, j, rl[idx].start_time,
                   NULL_BITMAP, <<>>, "running")
      ELSE IF when > rl[idx].end_time
      THEN TestOut(ESLURM_RESERVATION_INVALID, [j EXCEPT !.priority = 0],
                   rl[idx].end_time, NULL_BITMAP, <<>>, "running")
      \* bit_copy(NULL)
      ELSE IF rl[idx].node_bitmap = NULL_BITMAP
      THEN TestOut(NULL, j, when, NULL_BITMAP, <<>>, "crashed")
      ELSE TestOut(SLURM_SUCCESS, j, when, rl[idx].node_bitmap, <<>>,
                   "running")))

\* a record that starts when the job ends is taken to overlap it
RECURSIVE TestScan_closed(_, _, _, _, _, _)
TestScan_closed(rl, k, job, when, duration, node_bitmap) ==
    IF k > Len(rl)
    THEN [rc |-> SLURM_SUCCESS, when |-> when, node_bitmap |-> node_bitmap]
    ELSE IF \/ rl[k].node_bitmap = NULL_BITMAP
            \/ rl[k].start_time > when + duration
            \/ rl[k].end_time <= when
    THEN TestScan_closed(rl, k + 1, job, when, duration, node_bitmap)
    ELSE IF /\ job.req_node_bitmap # NULL_BITMAP
            /\ bit_overlap(job.req_node_bitmap, rl[k].node_bitmap) # 0
    THEN [rc |-> ESLURM_INVALID_TIME_VALUE, when |-> rl[k].end_time,
          node_bitmap |-> node_bitmap]
    ELSE TestScan_closed(rl, k + 1, job, when, duration,
                         node_bitmap \ rl[k].node_bitmap)

\* one pass of job_test_resv over the records of rl from k on, for a job
\* that starts at when: [rc, when, node_bitmap]
RECURSIVE TestScan(_, _, _, _, _, _)
TestScan(rl, k, job, when, duration, node_bitmap) ==
    IF k > Len(rl)
    THEN [rc |-> SLURM_SUCCESS, when |-> when, node_bitmap |-> node_bitmap]
    ELSE IF \/ rl[k].node_bitmap = NULL_BITMAP
            \/ rl[k].start_time >= when + duration
            \/ rl[k].end_time <= when
    THEN TestScan(rl, k + 1, job, when, duration, node_bitmap)
    ELSE IF /\ job.req_node_bitmap # NULL_BITMAP
            /\ bit_overlap(job.req_node_bitmap, rl[k].node_bitmap) # 0
    THEN [rc |-> ESLURM_INVALID_TIME_VALUE, when |-> rl[k].end_time,
          node_bitmap |-> node_bitmap]
    ELSE TestScan(rl, k + 1, job, when, duration,
                  node_bitmap \ rl[k].node_bitmap)

\* the loop retries once more
RECURSIVE TestLoop_one_more(_, _, _, _, _)
TestLoop_one_more(rl, job, when, duration, i) ==
    With(TestScan(rl, 1, job, when, duration, Nodes), LAMBDA s :
      IF s.rc = SLURM_SUCCESS
      THEN TestOut(s.rc, job, s.when, s.node_bitmap, <<when>>, "running")
      ELSE IF i <= TestRetries
      THEN With(TestLoop_one_more(rl, job, s.when, duration, i + 1), LAMBDA r :
             [r EXCEPT !.whens = <<when>> \o @])
      ELSE TestOut(s.rc, job, s.when, NULL_BITMAP, <<when>>, "running"))

\* the loop of job_test_resv from pass i on
RECURSIVE TestLoop(_, _, _, _, _)
TestLoop(rl, job, when, duration, i) ==
    With(TestScan(rl, 1, job, when, duration, Nodes), LAMBDA s :
      IF s.rc = SLURM_SUCCESS
      THEN TestOut(s.rc, job, s.when, s.node_bitmap, <<when>>, "running")
      ELSE IF i < TestRetries
      THEN With(TestLoop(rl, job, s.when, duration, i + 1), LAMBDA r :
             [r EXCEPT !.whens = <<when>> \o @])
      ELSE TestOut(s.rc, job, s.when, NULL_BITMAP, <<when>>, "running"))

\* job_test_resv(): [rc, job, when, node_bitmap, whens, ctld]
job_test_resv(rl, job, when) ==
    IF job.resv_name # NULL_NAME THEN TestNamed(rl, job, when)
    ELSE With([job EXCEPT !.resv_ptr = NULL_NAME], LAMBDA j :
           IF Len(rl) = 0
           THEN TestOut(SLURM_SUCCESS, j, when, Nodes, <<>>, "running")
           ELSE TestLoop(rl, j, when, JobDuration(j), 0))

(***************************************************************************)
(* The state save file                                                     *)
(***************************************************************************)
\* an item of a buffer is the pair of its kind and its value
packstr(v) == <<"str", v>>

pack_time(v) == <<"time", v>>

pack32(v) == <<"u32", v>>

pack16(v) == <<"u16", v>>

\* _pack_resv(): the fields of a record in the order they are packed
_pack_resv(resv, internal) ==
    <<packstr(resv.accounts), pack_time(resv.end_time), packstr(resv.features),
      packstr(resv.name), pack32(resv.node_cnt), packstr(resv.node_list),
      packstr(resv.partition), pack_time(resv.start_time), pack16(resv.flags),
      packstr(resv.users)>>
    \o (IF internal THEN <<pack32(resv.cpu_cnt), pack32(resv.resv_id)>> ELSE <<>>)

RECURSIVE PackAll(_)
PackAll(rl) ==
    IF Len(rl) = 0 THEN <<>> ELSE _pack_resv(Head(rl), TRUE) \o PackAll(Tail(rl))

\* the buffer dump_all_resv_state builds: header, then the records
DumpBuffer(rl, suffix, t) ==
    <<packstr(RESV_STATE_VERSION), pack_time(t), pack32(suffix)>> \o PackAll(rl)

\* the kinds load_all_resv_state unpacks, for the header and for a record
HdrKinds == <<"str", "time", "u32">>

RecKinds == <<"str", "time", "str", "str", "u32", "str", "str", "time", "u16",
              "str", "u32", "u32">>

HdrItems == Len(HdrKinds)

RecItems == Len(RecKinds)

\* A file name of dir maps to an inode number, 0 when there is no such
\* file.  An inode holds the items written and the length of the buffer
\* they are written from.
NoData == [data |-> <<>>, size |-> 0]

Inos == 1 .. 3

FreeIno(d) == CHOOSE i \in Inos : i \notin {d.new, d.reg, d.old}

\* the inodes no name refers to hold nothing
Collect(d, ino) ==
    [i \in Inos |-> IF i \in {d.new, d.reg, d.old} THEN ino[i] ELSE NoData]

\* creat(new_file, 0600): a new empty file, or the file there is, truncated
FsCreat(fs, size) ==
    LET i == IF fs.dir.new # 0 THEN fs.dir.new ELSE FreeIno(fs.dir)
    IN [dir |-> [fs.dir EXCEPT !.new = i],
        inodes |-> [fs.inodes EXCEPT ![i] = [data |-> <<>>, size |-> size]]]

\* write(log_fd, &data[pos], amount)
FsWrite(fs, buf, pos, amount) ==
    [fs EXCEPT !.inodes[fs.dir.new].data =
                   @ \o SubSeq(buf, pos + 1, pos + amount)]

FsUnlink(fs, name) ==
    LET d == [fs.dir EXCEPT ![name] = 0]
    IN [dir |-> d, inodes |-> Collect(d, fs.inodes)]

\* link(from, to): fails when from is missing or to exists
FsLink(fs, from, to) ==
    IF fs.dir[from] = 0 \/ fs.dir[to] # 0 THEN fs
    ELSE [fs EXCEPT !.dir[to] = fs.dir[from]]

\* the file shuffle of dump_all_resv_state, step by step
Shuffle(fs, step) ==
    CASE step = 1 -> FsUnlink(fs, "old")
      [] step = 2 -> FsLink(fs, "reg", "old")
      [] step = 3 -> FsUnlink(fs, "reg")
      [] step = 4 -> FsLink(fs, "new", "reg")
      [] step = 5 -> FsUnlink(fs, "new")

ShuffleSteps == 5

RECURSIVE ShuffleFrom(_, _)
ShuffleFrom(fs, step) ==
    IF step > ShuffleSteps THEN fs ELSE ShuffleFrom(Shuffle(fs, step), step + 1)

\* dump_all_resv_state() from start to end: the files it leaves.  written
\* is the number of items write() took before it failed, Len(buf) when it
\* did not fail.
dump_all_resv_state(fs, buf, written) ==
    With(FsWrite(FsCreat(fs, Len(buf)), buf, 0, written), LAMBDA f1 :
      IF written < Len(buf) THEN FsUnlink(f1, "new") ELSE ShuffleFrom(f1, 1))

\* the data of a file, or <<>> for no file
FileData(fs, name) == IF fs.dir[name] = 0 THEN <<>> ELSE fs.inodes[fs.dir[name]].data

(***************************************************************************)
(* load_all_resv_state                                                     *)
(***************************************************************************)
\* the safe_unpack calls find the items of kinds in d after offset o
KindsOk(d, o, kinds) ==
    /\ Len(d) - o >= Len(kinds)
    /\ \A k \in 1 .. Len(kinds) : d[o + k][1] = kinds[k]

\* the record the unpack loop of load_all_resv_state fills from the items
\* of d after offset o; what is not in the file is zero
Unpack(d, o) ==
    [name |-> d[o + 4][2], resv_id |-> d[o + 12][2],
     accounts |-> d[o + 1][2], account_cnt |-> 0, account_list |-> <<>>,
     users |-> d[o + 10][2], user_cnt |-> 0, user_list |-> <<>>,
     features |-> d[o + 3][2], flags |-> d[o + 9][2],
     partition |-> d[o + 7][2], part_ptr |-> NULL,
     start_time |-> d[o + 8][2], start_time_prev |-> 0, end_time |-> d[o + 2][2],
     node_list |-> d[o + 6][2], node_bitmap |-> NULL_BITMAP,
     node_cnt |-> d[o + 5][2], cpu_cnt |-> d[o + 11][2], job_cnt |-> 0]

\* the unpack loop over the items of d after offset o: [ok, list]; ok is
\* FALSE when it left through unpack_error, list holds the records appended
\* before
RECURSIVE UnpackAll(_, _)
UnpackAll(d, o) ==
    IF Len(d) - o <= 0 THEN [ok |-> TRUE, list |-> <<>>]
    ELSE IF ~KindsOk(d, o, RecKinds) THEN [ok |-> FALSE, list |-> <<>>]
    ELSE [UnpackAll(d, o + RecItems) EXCEPT !.list = <<Unpack(d, o)>> \o @]

\* _validate_one_reservation(): [ok, resv]
_validate_one_reservation(resv) ==
    LET acct == _build_account_list(resv.accounts)
        uid == _build_uid_list(resv.users)
        n2b == IF resv.node_list = ALL_HOSTS THEN [rc |-> 0, bitmap |-> Nodes]
               ELSE node_name2bitmap(resv.node_list)
        r1 == IF resv.partition # NULL
              THEN [resv EXCEPT !.part_ptr = find_part_record(resv.partition)]
              ELSE resv
        r2 == IF resv.accounts # NULL_LIST
              THEN [r1 EXCEPT !.account_cnt = acct.cnt, !.account_list = acct.list]
              ELSE r1
        r3 == IF resv.users # NULL_LIST
              THEN [r2 EXCEPT !.user_cnt = uid.cnt, !.user_list = uid.list]
              ELSE r2
        r4 == IF resv.node_list # NULL_HOSTS
              THEN [r3 EXCEPT !.node_bitmap = n2b.bitmap]
              ELSE r3
    IN  IF resv.name = NULL_NAME \/ resv.name[1] = ""
        THEN [ok |-> FALSE, resv |-> resv]
        ELSE IF resv.partition # NULL /\ find_part_record(resv.partition) = NULL
        THEN [ok |-> FALSE, resv |-> resv]
        ELSE IF resv.accounts # NULL_LIST /\ acct.rc # SLURM_SUCCESS
        THEN [ok |-> FALSE, resv |-> r1]
        ELSE IF resv.users # NULL_LIST /\ uid.rc # SLURM_SUCCESS
        THEN [ok |-> FALSE, resv |-> r2]
        ELSE IF resv.node_list # NULL_HOSTS /\ n2b.rc # 0
        THEN [ok |-> FALSE, resv |-> r3]
        ELSE [ok |-> TRUE, resv |-> r4]

Max(a, b) == IF a > b THEN a ELSE b

\* _validate_all_reservations(): [resv_list, top_suffix]
RECURSIVE _validate_all_reservations(_, _)
_validate_all_reservations(rl, suffix) ==
    IF Len(rl) = 0 THEN [resv_list |-> <<>>, top_suffix |-> suffix]
    ELSE With(_validate_one_reservation(Head(rl)), LAMBDA v :
         With(_validate_all_reservations(
                  Tail(rl), IF v.ok THEN Max(suffix, Head(rl).name[2])
                            ELSE suffix), LAMBDA rest :
           IF v.ok THEN [rest EXCEPT !.resv_list = <<v.resv>> \o @] ELSE rest))

\* unpack_error flushes the list before it validates
load_all_resv_state_error_flushes(rl, suffix, d, recover) ==
    LET flushed == _validate_all_reservations(<<>>, suffix)
    IN  IF recover = 0
        THEN [rc |-> SLURM_SUCCESS] @@ _validate_all_reservations(rl, suffix)
        ELSE IF ~KindsOk(d, 0, <<"str">>) THEN [rc |-> EFAULT] @@ flushed
        ELSE IF d[1][2] # RESV_STATE_VERSION THEN [rc |-> EFAULT] @@ flushed
        ELSE IF ~KindsOk(d, 0, HdrKinds) THEN [rc |-> EFAULT] @@ flushed
        ELSE With(UnpackAll(d, HdrItems), LAMBDA u :
               IF u.ok
               THEN [rc |-> SLURM_SUCCESS]
                       @@ _validate_all_reservations(u.list, d[3][2])
               ELSE [rc |-> EFAULT]
                       @@ _validate_all_reservations(<<>>, d[3][2]))

\* load_all_resv_state(): [rc, resv_list, top_suffix]; d is the data of
\* the file resv_state, <<>> when there is none
load_all_resv_state(rl, suffix, d, recover) ==
    LET flushed == _validate_all_reservations(<<>>, suffix)
    IN  IF recover = 0
        THEN [rc |-> SLURM_SUCCESS] @@ _validate_all_reservations(rl, suffix)
        ELSE IF ~KindsOk(d, 0, <<"str">>) THEN [rc |-> EFAULT] @@ flushed
        ELSE IF d[1][2] # RESV_STATE_VERSION THEN [rc |-> EFAULT] @@ flushed
        ELSE IF ~KindsOk(d, 0, HdrKinds) THEN [rc |-> EFAULT] @@ flushed
        ELSE With(UnpackAll(d, HdrItems), LAMBDA u :
               [rc |-> IF u.ok THEN SLURM_SUCCESS ELSE EFAULT]
                  @@ _validate_all_reservations(u.list, d[3][2]))

(***************************************************************************)
(* The requests                                                            *)
(***************************************************************************)
\* the time the controller starts at
T0 == 10 * Step

ALICE == << <<"", "alice">> >>

\* a create request of user alice
CR(name, start_time, end_time, node_list, node_cnt) ==
    [name |-> name, start_time |-> start_time, end_time |-> end_time,
     duration |-> 0, flags |-> NO_VAL_FLAGS, partition |-> NULL,
     accounts |-> NULL_LIST, users |-> ALICE, features |-> NULL,
     node_list |-> node_list, node_cnt |-> node_cnt]

\* an update request that leaves every field alone
UR(name) ==
    [name |-> name, start_time |-> NO_VAL, end_time |-> NO_VAL,
     duration |-> NO_VAL, flags |-> NO_VAL_FLAGS, partition |-> NULL,
     accounts |-> NULL_LIST, users |-> NULL_LIST, features |-> NULL,
     node_list |-> NULL_HOSTS, node_cnt |-> NO_VAL]

ResvNames == {<<"alice", 1>>, <<"alice", 2>>, <<"alice", 3>>, <<"maint", 0>>}

CreateReqs ==
    {CR(NULL_NAME, T0, T0 + Step, <<"n0">>, NO_VAL),
     CR(NULL_NAME, T0 + Step, T0 + 2 * Step, <<"n0">>, NO_VAL),
     CR(NULL_NAME, T0, T0 + 2 * Step, <<"n1", "n0">>, NO_VAL),
     CR(NULL_NAME, T0 + 2 * Step, T0 + Step, <<"n1">>, NO_VAL),
     CR(NULL_NAME, T0 + Step, T0 + 2 * Step, NULL_HOSTS, 2),
     CR(<<"maint", 0>>, T0, T0 + Step, <<"n2">>, NO_VAL),
     CR(NULL_NAME, T0 - Step, T0 + Step, <<"n0">>, NO_VAL),
     CR(<<"maint", 0>>, T0, T0 + Step, <<"n9">>, NO_VAL),
     CR(NULL_NAME, T0, T0 + Step, NULL_HOSTS, NO_VAL),
     CR(NULL_NAME, T0, T0 + Step, NULL_HOSTS, NodeCount + 1),
     [CR(NULL_NAME, T0, T0 + Step, <<"n0">>, NO_VAL) EXCEPT !.partition = "nosuch"],
     [CR(NULL_NAME, T0, T0 + Step, <<"n0">>, NO_VAL) EXCEPT !.users = NULL_LIST],
     [CR(NULL_NAME, T0, T0 + Step, <<"n0">>, NO_VAL) EXCEPT
          !.users = << <<"", "mallory">> >>]}

UpdateReqs(name) ==
    {[UR(name) EXCEPT !.start_time = T0 + Step],
     [UR(name) EXCEPT !.start_time = T0, !.end_time = T0 + 2 * Step],
     [UR(name) EXCEPT !.start_time = T0 + Step, !.end_time = T0 - Step],
     [UR(name) EXCEPT !.node_list = <<"n1">>],
     [UR(name) EXCEPT !.node_list = <<"n9">>],
     [UR(name) EXCEPT !.node_cnt = 1],
     [UR(name) EXCEPT !.node_cnt = 2],
     [UR(name) EXCEPT !.node_list = <<"n0", "n1">>, !.node_cnt = 1],
     [UR(name) EXCEPT !.start_time = T0, !.end_time = T0 + 2 * Step,
                      !.node_cnt = 1],
     [UR(name) EXCEPT !.users = << <<"-", "alice">> >>],
     [UR(name) EXCEPT !.partition = "nosuch", !.flags = {RESERVE_FLAG_MAINT}]}

(***************************************************************************)
(* The state after startup                                                 *)
(***************************************************************************)
EmptyFs == [dir |-> [new |-> 0, reg |-> 0, old |-> 0],
            inodes |-> [i \in Inos |-> NoData]]

\* the checkpoint an earlier run of the controller left: two reservations
\* of the same node, one window after the other
PrevRun ==
    With(create_resv(<<>>, 0, CR(NULL_NAME, T0, T0 + Step, <<"n0">>, NO_VAL)),
         LAMBDA c1 :
           create_resv(c1.resv_list, c1.top_suffix,
                       CR(NULL_NAME, T0 + Step, T0 + 2 * Step, <<"n0">>, NO_VAL)))

PrevCheckpoint ==
    With(PrevRun, LAMBDA r : DumpBuffer(r.resv_list, r.top_suffix, T0))

\* a file holds a complete checkpoint: all of the buffer it was written
\* from, which starts with the version and ends with a whole record
Complete(fs, name) ==
    /\ fs.dir[name] # 0
    /\ LET f == fs.inodes[fs.dir[name]]
       IN /\ Len(f.data) = f.size
          /\ Len(f.data) >= HdrItems
          /\ f.data[1] = packstr(RESV_STATE_VERSION)
          /\ (Len(f.data) - HdrItems) % RecItems = 0

Files == [dir |-> dir, inodes |-> inodes]

\* no dump_all_resv_state call is under way.  Of a call under way: pc is
\* where it stands, buf the buffer it packed, pos and nwrite the variables
\* of its write loop, step the next step of the file shuffle, intr says that
\* a write was interrupted, began that a complete checkpoint was on disk
\* when the call began.  calls counts the calls made.
DumpIdle == [pc |-> "idle", buf |-> <<>>, pos |-> 0, nwrite |-> 0, step |-> 0,
             intr |-> FALSE, began |-> FALSE, calls |-> 0]

DumpDone == [DumpIdle EXCEPT !.calls = dump.calls]

\* the reader threads, and none of them in a call
Threads == 1 .. MaxReaders

NoReaders == [t \in Threads |-> [pc |-> "idle", calls |-> 0]]

Init ==
    /\ now = T0
    /\ avail_node_bitmap = Nodes
    /\ idle_node_bitmap = Nodes \ {1}
    /\ resv_list = <<>>
    /\ top_suffix = 0
    /\ job_list = <<>>
    /\ \E buf \in {PrevCheckpoint} :
          \E fs \in {dump_all_resv_state(EmptyFs, buf, Len(buf))} :
             dir = fs.dir /\ inodes = fs.inodes
    /\ dump = DumpIdle
    /\ sweep = 0
    /\ updates = 0
    /\ ctld = "running"
    /\ last = [op |-> "init", rc |-> SLURM_SUCCESS]
    /\ acct_calls = <<>>
    /\ readers = NoReaders
    /\ all_ok = TRUE

(***************************************************************************)
(* The calls                                                               *)
(***************************************************************************)
\* a call to the accounting storage for the record resv: listed tells
\* whether the list rl, as it is when the call is made, holds that record
Post(call, resv, rl) ==
    <<[call |-> call, name |-> resv.name,
       listed |-> \E k \in 1 .. Len(rl) : rl[k] = resv]>>

\* create_resv() calls _post_resv_create() for the record it has filled,
\* and appends the record to the list after that; r is what it returns
_post_resv_create(rl, r) ==
    IF r.rc = SLURM_SUCCESS
    THEN Post("add", r.resv_list[Len(r.resv_list)], rl)
    ELSE <<>>

\* update_resv() calls _post_resv_update() at fini, where every path ends
\* that found the record; r is what it returns
_post_resv_update(rl, req, r) ==
    With(list_find_first(rl, req.name), LAMBDA idx :
      IF req.name = NULL_NAME \/ idx = 0 \/ r.ctld # "running" THEN <<>>
      ELSE Post("modify", r.resv_list[idx], r.resv_list))

\* delete_resv() calls _post_resv_delete() for the record it found, if no
\* job uses it, and takes the record from the list after that
_post_resv_delete(rl, jobs, name) ==
    With(DeleteScan(rl, name), LAMBDA idx :
      IF idx = 0 \/ _is_resv_used(jobs, rl[idx]) THEN <<>>
      ELSE Post("remove", rl[idx], rl))

Returned(op, rc) ==
    /\ last' = [op |-> op, rc |-> rc]
    /\ all_ok' = (all_ok /\ rc = SLURM_SUCCESS)

Create(req) ==
    /\ ctld = "running" /\ sweep = 0
    /\ Len(resv_list) < MaxResv
    /\ top_suffix < MaxSuffix \/ top_suffix >= TOP_SUFFIX_WRAP
    /\ \E r \in {create_resv(resv_list, top_suffix, req)} :
          /\ resv_list' = r.resv_list
          /\ top_suffix' = r.top_suffix
          /\ ctld' = r.ctld
          /\ acct_calls' = _post_resv_create(resv_list, r)
          /\ Returned("create_resv", r.rc)
    /\ UNCHANGED <<now, job_list, idle_node_bitmap, avail_node_bitmap, inodes,
                   dir, dump, sweep,
                   updates, readers>>

Update(req, uaf) ==
    /\ ctld = "running" /\ sweep = 0
    /\ updates < MaxUpdates
    /\ updates' = updates + 1
    /\ req.users = NULL_LIST => uaf = "intact"
    /\ \E r \in {update_resv(resv_list, req, uaf)} :
          /\ resv_list' = r.resv_list
          /\ ctld' = r.ctld
          /\ acct_calls' = _post_resv_update(resv_list, req, r)
          /\ Returned("update_resv", r.rc)
    /\ UNCHANGED <<top_suffix, now, job_list, idle_node_bitmap,
                   avail_node_bitmap, inodes, dir, dump, sweep, readers>>

Delete(name, acct_rc) ==
    /\ ctld = "running" /\ sweep = 0
    /\ \E r \in {delete_resv(resv_list, job_list, name, acct_rc)} :
          /\ resv_list' = r.resv_list
          /\ job_list' = Freed(job_list, Names(resv_list) \ Names(r.resv_list))
          /\ acct_calls' = _post_resv_delete(resv_list, job_list, name)
          /\ Returned("delete_resv", r.rc)
    /\ UNCHANGED <<top_suffix, now, idle_node_bitmap, avail_node_bitmap, inodes,
                   dir, dump, sweep, ctld,
                   updates, readers>>

Load(recover) ==
    /\ ctld = "running" /\ sweep = 0
    /\ \E r \in {load_all_resv_state(resv_list, top_suffix,
                                       FileData(Files, "reg"), recover)} :
          /\ resv_list' = r.resv_list
          /\ top_suffix' = r.top_suffix
          /\ job_list' = Freed(job_list,
                               IF recover = 0
                               THEN Names(resv_list) \ Names(r.resv_list)
                               ELSE Names(resv_list))
          /\ Returned("load_all_resv_state", r.rc)
    /\ acct_calls' = <<>>
    /\ UNCHANGED <<now, idle_node_bitmap, avail_node_bitmap, inodes, dir, dump,
                   sweep, ctld,
                   updates, readers>>

Tick ==
    /\ ctld = "running"
    /\ now < T0 + MaxTicks * Step
    /\ now' = now + Step
    /\ UNCHANGED <<resv_list, top_suffix, job_list, idle_node_bitmap,
                   avail_node_bitmap, inodes, dir, dump, sweep, ctld, last,
                   all_ok,
                   updates, acct_calls, readers>>

\* a job record as it is submitted
Job(resv_name, user_id) ==
    [resv_name |-> resv_name, resv_id |-> 0, resv_flags |-> {},
     resv_ptr |-> NULL_NAME, user_id |-> user_id, account |-> NULL,
     finished |-> FALSE]

\* a job is submitted: it is kept when validate_job_resv accepts it
SubmitJob(resv_name, user_id) ==
    /\ ctld = "running" /\ sweep = 0
    /\ Len(job_list) < MaxJobs
    /\ \E v \in {validate_job_resv(resv_list, Job(resv_name, user_id))} :
          /\ job_list' = IF v.rc = SLURM_SUCCESS THEN Append(job_list, v.job)
                         ELSE job_list
          /\ last' = [op |-> "validate_job_resv", rc |-> v.rc]
    /\ acct_calls' = <<>>
    /\ UNCHANGED <<resv_list, top_suffix, now, idle_node_bitmap,
                   avail_node_bitmap, inodes, dir, dump, sweep, ctld, all_ok,
                   updates, readers>>

JobFinish(j) ==
    /\ ctld = "running" /\ sweep = 0
    /\ j \in 1 .. Len(job_list) /\ ~job_list[j].finished
    /\ job_list' = [job_list EXCEPT ![j].finished = TRUE]
    /\ UNCHANGED <<resv_list, top_suffix, now, idle_node_bitmap,
                   avail_node_bitmap, inodes, dir, dump, sweep, ctld, last,
                   all_ok,
                   updates, acct_calls, readers>>

\* resv_over_run as begin_job_resv_check caches it, seconds
resv_over_run ==
    IF ResvOverRunConf = INFINITE THEN YearSecs ELSE ResvOverRunConf * MinuteSecs

\* the index of the record a resv_ptr points to
Deref(rl, ptr) == CHOOSE k \in 1 .. Len(rl) : rl[k].name = ptr

\* job_resv_check(): [rc, resv_list, job, ctld].  A job whose resv_ptr
\* points to a freed record reads and writes memory that is no record any
\* more: the call faults (alias = -1), writes where no record is
\* (alias = 0, the answer is freed_rc) or writes to the record at alias
\* that took the place of the freed one.
job_resv_check(rl, job, alias, freed_rc) ==
    LET out(rc, l, j, c) == [rc |-> rc, resv_list |-> l, job |-> j, ctld |-> c]
        cnt(k, j) == With(JobResvCount(rl, k, resv_over_run), LAMBDA c :
                        out(c.rc, c.resv_list, j, "running"))
    IN  IF job.resv_name = NULL_NAME THEN out(SLURM_SUCCESS, rl, job, "running")
        ELSE IF job.resv_ptr = DANGLING
        THEN IF alias = -1 THEN out(NULL, rl, job, "crashed")
             ELSE IF alias = 0 THEN out(freed_rc, rl, job, "running")
             ELSE cnt(alias, job)
        ELSE With(IF job.resv_ptr = NULL_NAME
                  THEN list_find_first(rl, job.resv_name)
                  ELSE Deref(rl, job.resv_ptr), LAMBDA idx :
               IF idx = 0 THEN out(ESLURM_INVALID_TIME_VALUE, rl, job, "running")
               ELSE cnt(idx, [job EXCEPT !.resv_ptr = rl[idx].name]))

BeginJobResvCheck ==
    /\ ctld = "running" /\ sweep = 0
    /\ resv_list' = begin_job_resv_check(resv_list)
    /\ sweep' = 1
    /\ last' = [op |-> "begin_job_resv_check", rc |-> SLURM_SUCCESS]
    /\ acct_calls' = <<>>
    /\ UNCHANGED <<top_suffix, now, job_list, idle_node_bitmap,
                   avail_node_bitmap, inodes, dir, dump, ctld, all_ok,
                   updates, readers>>

\* the sweep reaches the next job: job_resv_check for a job that is not
\* finished
JobResvCheck(alias, freed_rc) ==
    /\ ctld = "running" /\ sweep \in 1 .. Len(job_list)
    /\ \E job \in {job_list[sweep]} :
       \E dangling \in {~job.finished /\ job.resv_name # NULL_NAME
                            /\ job.resv_ptr = DANGLING} :
          /\ alias \in (IF dangling THEN -1 .. Len(resv_list) ELSE {0})
          /\ freed_rc = SLURM_SUCCESS \/ (dangling /\ alias = 0)
          /\ IF job.finished
             THEN UNCHANGED <<resv_list, job_list, ctld, last, acct_calls>>
             ELSE \E r \in {job_resv_check(resv_list, job, alias, freed_rc)} :
                  /\ resv_list' = r.resv_list
                  /\ job_list' = [job_list EXCEPT ![sweep] = r.job]
                  /\ ctld' = r.ctld
                  /\ last' = [op |-> "job_resv_check", rc |-> r.rc]
                  /\ acct_calls' = <<>>
    /\ sweep' = sweep + 1
    /\ UNCHANGED <<top_suffix, now, idle_node_bitmap, avail_node_bitmap, inodes,
                   dir, dump, all_ok,
                   updates, readers>>

FiniJobResvCheck ==
    /\ ctld = "running" /\ sweep = Len(job_list) + 1
    /\ resv_list' = fini_job_resv_check(resv_list)
    /\ job_list' = Freed(job_list, Names(resv_list) \ Names(resv_list'))
    /\ sweep' = 0
    /\ last' = [op |-> "fini_job_resv_check", rc |-> SLURM_SUCCESS]
    /\ acct_calls' = <<>>
    /\ UNCHANGED <<top_suffix, now, idle_node_bitmap, avail_node_bitmap, inodes,
                   dir, dump, ctld, all_ok,
                   updates, readers>>

JobNames == {NULL_NAME, <<"alice", 1>>, <<"maint", 0>>}

JobUids == {1001, 1002}

JobCreateReqs ==
    {CR(NULL_NAME, T0, T0 + Step, <<"n0">>, NO_VAL),
     CR(<<"maint", 0>>, T0, T0 + 2 * Step, <<"n2">>, NO_VAL)}

Next ==
    \/ \E req \in CreateReqs : Create(req)
    \/ \E name \in ResvNames : \E req \in UpdateReqs(name) :
          \E uaf \in UafOutcomes : Update(req, uaf)
    \/ \E name \in ResvNames : \E acct_rc \in {SLURM_SUCCESS, SLURM_ERROR} :
          Delete(name, acct_rc)
    \/ \E recover \in 0 .. 2 : Load(recover)
    \/ Tick
    \/ BeginJobResvCheck
    \/ FiniJobResvCheck

\* the reservations and the jobs that use them
NextJobs ==
    \/ \E req \in JobCreateReqs : Create(req)
    \/ \E name \in ResvNames : \E acct_rc \in {SLURM_SUCCESS, SLURM_ERROR} :
          Delete(name, acct_rc)
    \/ \E recover \in 0 .. 2 : Load(recover)
    \/ Tick
    \/ \E resv_name \in JobNames : \E user_id \in JobUids :
          SubmitJob(resv_name, user_id)
    \/ \E j \in 1 .. MaxJobs : JobFinish(j)
    \/ BeginJobResvCheck
    \/ \E alias \in -1 .. MaxResv :
          \E freed_rc \in {SLURM_SUCCESS, ESLURM_INVALID_TIME_VALUE} :
             JobResvCheck(alias, freed_rc)
    \/ FiniJobResvCheck

Spec == Init /\ [][Next]_vars

SpecJobs == Init /\ [][NextJobs]_vars

(***************************************************************************)
(* dump_all_resv_state step by step, faults of the process, restarts       *)
(***************************************************************************)
DumpStart ==
    /\ ctld = "running" /\ dump.pc = "idle" /\ dump.calls < MaxDumps
    /\ dump' = [pc |-> "creat", buf |-> DumpBuffer(resv_list, top_suffix, now),
                pos |-> 0, nwrite |-> HdrItems + RecItems * Len(resv_list),
                step |-> 1, intr |-> FALSE,
                began |-> Complete(Files, "reg") \/ Complete(Files, "old"),
                calls |-> dump.calls + 1]
    /\ last' = [op |-> "dump_all_resv_state", rc |-> NULL]
    /\ acct_calls' = <<>>
    /\ UNCHANGED <<resv_list, top_suffix, now, job_list, idle_node_bitmap,
                   avail_node_bitmap, inodes, dir, sweep, updates, ctld, all_ok,
                   readers>>

DumpCreat ==
    /\ ctld = "running" /\ dump.pc = "creat"
    /\ \E fs \in {FsCreat(Files, Len(dump.buf))} :
          dir' = fs.dir /\ inodes' = fs.inodes
    /\ dump' = [dump EXCEPT !.pc = "write"]
    /\ UNCHANGED <<resv_list, top_suffix, now, job_list, idle_node_bitmap,
                   avail_node_bitmap, sweep, updates, ctld, last, all_ok,
                   acct_calls, readers>>

\* what write() takes from &data[pos]: the item before the buffer is no
\* item of it
DataFrom(buf, pos, amount) ==
    [k \in 1 .. amount |-> IF pos + k < 1 THEN <<"?", 0>> ELSE buf[pos + k]]

\* write() takes amount items: all that is left, or a part
DumpWrite(amount) ==
    /\ ctld = "running" /\ dump.pc = "write"
    /\ amount \in {HdrItems, dump.nwrite} \cap (1 .. dump.nwrite)
    /\ inodes' = [inodes EXCEPT ![dir.new].data =
                      @ \o DataFrom(dump.buf, dump.pos, amount)]
    /\ dump' = [dump EXCEPT !.pos = @ + amount, !.nwrite = @ - amount,
                            !.pc = IF dump.nwrite = amount THEN "shuffle"
                                   ELSE "write"]
    /\ UNCHANGED <<resv_list, top_suffix, now, job_list, idle_node_bitmap,
                   avail_node_bitmap, dir, sweep, updates, ctld, last, all_ok,
                   acct_calls, readers>>

\* write() returns -1 with errno EINTR
DumpWriteIntr ==
    /\ ctld = "running" /\ dump.pc = "write" /\ ~dump.intr
    /\ dump' = [dump EXCEPT !.pos = @ - 1, !.nwrite = @ + 1, !.intr = TRUE]
    /\ UNCHANGED <<resv_list, top_suffix, now, job_list, idle_node_bitmap,
                   avail_node_bitmap, inodes, dir, sweep, updates, ctld, last,
                   all_ok, acct_calls, readers>>

\* write() returns -1 with another errno: unlink(new_file), return 0
DumpWriteError ==
    /\ ctld = "running" /\ dump.pc = "write"
    /\ \E fs \in {FsUnlink(Files, "new")} :
          dir' = fs.dir /\ inodes' = fs.inodes
    /\ dump' = DumpDone
    /\ last' = [op |-> "dump_all_resv_state", rc |-> SLURM_SUCCESS]
    /\ acct_calls' = <<>>
    /\ UNCHANGED <<resv_list, top_suffix, now, job_list, idle_node_bitmap,
                   avail_node_bitmap, sweep, updates, ctld, all_ok, readers>>

DumpShuffle ==
    /\ ctld = "running" /\ dump.pc = "shuffle"
    /\ \E fs \in {Shuffle(Files, dump.step)} :
          dir' = fs.dir /\ inodes' = fs.inodes
    /\ dump' = IF dump.step = ShuffleSteps THEN DumpDone
               ELSE [dump EXCEPT !.step = @ + 1]
    /\ last' = IF dump.step = ShuffleSteps
               THEN [op |-> "dump_all_resv_state", rc |-> SLURM_SUCCESS]
               ELSE last
    /\ acct_calls' = <<>>
    /\ UNCHANGED <<resv_list, top_suffix, now, job_list, idle_node_bitmap,
                   avail_node_bitmap, sweep, updates, ctld, all_ok, readers>>

\* the process is killed, or the machine fails
Crash ==
    /\ ctld = "running"
    /\ ctld' = "crashed"
    /\ UNCHANGED <<resv_list, top_suffix, now, job_list, idle_node_bitmap,
                   avail_node_bitmap, inodes, dir, dump, sweep, updates, last,
                   all_ok, acct_calls, readers>>

\* a new process starts and recovers the reservations
Restart(recover) ==
    /\ ctld = "crashed"
    /\ ctld' = "running"
    /\ \E r \in {load_all_resv_state(<<>>, 0, FileData(Files, "reg"), recover)} :
          /\ resv_list' = r.resv_list
          /\ top_suffix' = r.top_suffix
          /\ last' = [op |-> "load_all_resv_state", rc |-> r.rc]
    /\ job_list' = <<>>
    /\ dump' = DumpDone
    /\ sweep' = 0
    /\ all_ok' = TRUE
    /\ acct_calls' = <<>>
    /\ UNCHANGED <<now, idle_node_bitmap, avail_node_bitmap, inodes, dir,
                   updates, readers>>

DumpCreateReqs == {CR(<<"maint", 0>>, T0, T0 + 2 * Step, <<"n2">>, NO_VAL)}

\* header and records, and one more item after an interrupted write
WriteAmounts == 1 .. (HdrItems + MaxResv * RecItems + 1)

NextDump ==
    \/ \E req \in DumpCreateReqs : Create(req)
    \/ Delete(<<"maint", 0>>, SLURM_SUCCESS)
    \/ DumpStart
    \/ DumpCreat
    \/ \E amount \in WriteAmounts : DumpWrite(amount)
    \/ DumpWriteIntr
    \/ DumpWriteError
    \/ DumpShuffle
    \/ Crash
    \/ \E recover \in 1 .. 2 : Restart(recover)

SpecDump == Init /\ [][NextDump]_vars

(***************************************************************************)
(* Checkpoints and recoveries of a running controller                      *)
(***************************************************************************)
PHYSICS == << <<"", "physics">> >>

LoadCreateReqs ==
    {CR(NULL_NAME, T0, T0 + Step, <<"n0">>, NO_VAL),
     CR(<<"maint", 0>>, T0, T0 + 2 * Step, <<"n2">>, NO_VAL),
     [CR(NULL_NAME, T0 + Step, T0 + 2 * Step, NULL_HOSTS, 2) EXCEPT
          !.accounts = PHYSICS, !.users = NULL_LIST]}

LoadUpdateReqs(name) ==
    {[UR(name) EXCEPT !.start_time = T0 + Step, !.end_time = T0 + 3 * Step],
     [UR(name) EXCEPT !.users = << <<"+", "bob">> >>,
                      !.flags = {RESERVE_FLAG_MAINT}]}

\* dump_all_resv_state() from start to end, no fault
Checkpoint ==
    /\ ctld = "running" /\ sweep = 0
    /\ dump.pc = "idle" /\ dump.calls < MaxCheckpoints
    /\ \E buf \in {DumpBuffer(resv_list, top_suffix, now)} :
          \E fs \in {dump_all_resv_state(Files, buf, Len(buf))} :
             dir' = fs.dir /\ inodes' = fs.inodes
    /\ dump' = [dump EXCEPT !.calls = @ + 1]
    /\ Returned("dump_all_resv_state", SLURM_SUCCESS)
    /\ acct_calls' = <<>>
    /\ UNCHANGED <<resv_list, top_suffix, now, job_list, idle_node_bitmap,
                   avail_node_bitmap, sweep, updates, ctld, readers>>

\* versions of the state file other releases write, and no version at all
OtherVersions == {"VER000", NULL}

\* resv_state is the file of another release
OtherRelease(ver) ==
    /\ ctld = "running"
    /\ dir.reg # 0
    /\ Len(inodes[dir.reg].data) > 0
    /\ inodes[dir.reg].data[1] = packstr(RESV_STATE_VERSION)
    /\ inodes' = [inodes EXCEPT ![dir.reg].data[1] = packstr(ver)]
    /\ UNCHANGED <<resv_list, top_suffix, now, job_list, idle_node_bitmap,
                   avail_node_bitmap, dir, dump, sweep, updates, ctld, last,
                   all_ok, acct_calls, readers>>

\* the data the read loop of load_all_resv_state leaves in the buffer: all
\* of resv_state, or the size items before read() failed
DataRead(size) == SubSeq(FileData(Files, "reg"), 1, size)

\* load_all_resv_state(recover) whose read loop takes size items
LoadRead(recover, size) ==
    /\ ctld = "running" /\ sweep = 0
    /\ size \in 0 .. Len(FileData(Files, "reg"))
    /\ recover = 0 => size = Len(FileData(Files, "reg"))
    /\ \E r \in {load_all_resv_state(resv_list, top_suffix, DataRead(size),
                                       recover)} :
          /\ resv_list' = r.resv_list
          /\ top_suffix' = r.top_suffix
          /\ job_list' = Freed(job_list,
                               IF recover = 0
                               THEN Names(resv_list) \ Names(r.resv_list)
                               ELSE Names(resv_list))
          /\ Returned("load_all_resv_state", r.rc)
    /\ acct_calls' = <<>>
    /\ UNCHANGED <<now, idle_node_bitmap, avail_node_bitmap, inodes, dir, dump,
                   sweep, ctld, updates, readers>>

\* the sizes a read stops at: before and after the version, after the
\* header, after a record, and in a record after its name
ReadSizes ==
    {0, 1, HdrItems}
       \cup {HdrItems + k * RecItems + j :
                 k \in 0 .. (MaxResv - 1), j \in {5, RecItems}}

NextLoad ==
    \/ \E req \in LoadCreateReqs : Create(req)
    \/ \E name \in Names(resv_list) : \E req \in LoadUpdateReqs(name) :
          \E uaf \in UafOutcomes : Update(req, uaf)
    \/ Checkpoint
    \/ \E ver \in OtherVersions : OtherRelease(ver)
    \/ \E recover \in 0 .. 2 : \E size \in ReadSizes : LoadRead(recover, size)

SpecLoad == Init /\ [][NextLoad]_vars

(***************************************************************************)
(* Jobs validated and tested against registries of any length              *)
(***************************************************************************)
ChainLen == 12

\* the registry and top_suffix after the create_resv calls of reqs, from an
\* empty registry
RECURSIVE Run(_)
Run(reqs) ==
    IF Len(reqs) = 0 THEN [resv_list |-> <<>>, top_suffix |-> 0]
    ELSE CHOOSE next \in
             {[resv_list |-> c.resv_list, top_suffix |-> c.top_suffix] :
                 c \in {create_resv(r.resv_list, r.top_suffix, reqs[Len(reqs)]) :
                           r \in {Run(SubSeq(reqs, 1, Len(reqs) - 1))}}} : TRUE

\* n reservations of node n0, the window of each begins where the window of
\* the one before ends
ChainReqs(n) ==
    [k \in 1 .. n |->
        CR(NULL_NAME, T0 + (k - 1) * Step, T0 + k * Step, <<"n0">>, NO_VAL)]

\* reservations of a user and of an account, on nodes apart, whose windows
\* overlap
MixedReqs ==
    <<CR(NULL_NAME, T0, T0 + Step, <<"n0">>, NO_VAL),
      [CR(NULL_NAME, T0, T0 + 2 * Step, <<"n1">>, NO_VAL) EXCEPT
           !.accounts = PHYSICS, !.users = << <<"", "bob">> >>,
           !.flags = {RESERVE_FLAG_MAINT}],
      CR(NULL_NAME, T0 + Step, T0 + 3 * Step, <<"n2">>, NO_VAL)>>

TestRuns ==
    {Run(ChainReqs(n)) : n \in 0 .. ChainLen}
       \cup {Run(SubSeq(MixedReqs, 1, n)) : n \in 2 .. 3}

InitTest ==
    /\ now = T0
    /\ avail_node_bitmap = Nodes
    /\ idle_node_bitmap = Nodes \ {1}
    /\ \E r \in TestRuns : resv_list = r.resv_list /\ top_suffix = r.top_suffix
    /\ job_list = <<>>
    /\ dir = EmptyFs.dir
    /\ inodes = EmptyFs.inodes
    /\ dump = DumpIdle
    /\ sweep = 0
    /\ updates = 0
    /\ ctld = "running"
    /\ last = [op |-> "init", rc |-> SLURM_SUCCESS]
    /\ acct_calls = <<>>
    /\ readers = NoReaders
    /\ all_ok = TRUE

\* a job record as job_test_resv reads it: part_max_time is max_time of the
\* partition of the job, minutes
TestJob(resv_name, user_id, account, resv_id, time_limit, req_node_bitmap) ==
    [Job(resv_name, user_id) EXCEPT
         !.account = account, !.resv_id = resv_id,
         !.resv_flags = IF resv_id = 0 THEN {} ELSE {RESERVE_FLAG_DAILY}]
       @@ [priority |-> 1, time_limit |-> time_limit, part_max_time |-> 2,
           req_node_bitmap |-> req_node_bitmap]

TestNames ==
    {NULL_NAME, <<"", 0>>, <<"alice", 1>>, <<"physics", 2>>, <<"alice", 99>>}

TestJobs ==
    {TestJob(n, u, a, i, t, q) :
        n \in TestNames, u \in {1001, 1003}, a \in {NULL, "physics", "chem"},
        i \in {0, 7}, t \in {1, NO_VAL}, q \in {NULL_BITMAP, {0}, {1, 2}}}

\* the times a job is to start at; a job of one minute that starts at
\* T0 + Step - MinuteSecs ends where the second window of a chain begins
TestWhens ==
    {T0 - Step, T0, T0 + Step - MinuteSecs, T0 + Step, T0 + Step + Step \div 2}

\* a job record comes into being
NewJob(job) ==
    /\ ctld = "running"
    /\ Len(job_list) < MaxJobs
    /\ job_list' = Append(job_list, job)
    /\ UNCHANGED <<resv_list, top_suffix, now, idle_node_bitmap,
                   avail_node_bitmap, inodes, dir, dump, sweep, updates, ctld,
                   last, all_ok, acct_calls, readers>>

\* validate_job_resv(job_ptr) of the job at j
ValidateJob(j) ==
    /\ ctld = "running"
    /\ j \in 1 .. Len(job_list)
    /\ \E v \in {validate_job_resv(resv_list, job_list[j])} :
          /\ job_list' = [job_list EXCEPT ![j] = v.job]
          /\ last' = [op |-> "validate_job_resv", rc |-> v.rc]
    /\ acct_calls' = <<>>
    /\ UNCHANGED <<resv_list, top_suffix, now, idle_node_bitmap,
                   avail_node_bitmap, inodes, dir, dump, sweep, updates, ctld,
                   all_ok, readers>>

\* job_test_resv(job_ptr, &when, &node_bitmap) of the job at j
JobTestResv(j, when) ==
    /\ ctld = "running"
    /\ j \in 1 .. Len(job_list)
    /\ \E r \in {job_test_resv(resv_list, job_list[j], when)} :
          /\ job_list' = [job_list EXCEPT ![j] = r.job]
          /\ ctld' = r.ctld
          /\ last' = [op |-> "job_test_resv", rc |-> r.rc, when |-> r.when,
                      node_bitmap |-> r.node_bitmap, whens |-> r.whens]
    /\ acct_calls' = <<>>
    /\ UNCHANGED <<resv_list, top_suffix, now, idle_node_bitmap,
                   avail_node_bitmap, inodes, dir, dump, sweep, updates,
                   all_ok, readers>>

NextTest ==
    \/ \E job \in TestJobs : NewJob(job)
    \/ \E j \in 1 .. MaxJobs : ValidateJob(j)
    \/ \E j \in 1 .. MaxJobs : \E when \in TestWhens : JobTestResv(j, when)

SpecTest == InitTest /\ [][NextTest]_vars

(***************************************************************************)
(* Readers that run at the same time                                       *)
(*                                                                         *)
(* Each reader thread holds the read lock of the reservations and calls    *)
(* job_test_resv or show_resv; no thread writes.  A step is one read or    *)
(* one bit_not / bit_and call of the loop of job_test_resv.                *)
(***************************************************************************)
\* the thread has the answer of its call
ReaderDone(th, rc, when, node_bitmap) ==
    [pc |-> "done", calls |-> th.calls, job |-> th.job, when0 |-> th.when0,
     rc |-> rc, when |-> when, node_bitmap |-> node_bitmap]

\* a pass over the list ended with a job put off to when
ReaderDeferred(th, when) ==
    IF th.i < TestRetries
    THEN [th EXCEPT !.when = when, !.i = th.i + 1, !.k = 1,
                    !.node_bitmap = Nodes]
    ELSE ReaderDone(th, ESLURM_INVALID_TIME_VALUE, when, NULL_BITMAP)

\* the next step of the loop of job_test_resv in thread state th, on the
\* list rl: [th, resv_list]
ReaderNext(rl, th) ==
    LET k == th.k
        out(t, l) == [th |-> t, resv_list |-> l]
        flipped == [rl EXCEPT ![k].node_bitmap = bit_not(rl[k].node_bitmap)]
    IN  IF th.pc = "and"
        THEN out([th EXCEPT !.pc = "not",
                     !.node_bitmap = th.node_bitmap \cap rl[k].node_bitmap], rl)
        ELSE IF th.pc = "not"
        THEN out([th EXCEPT !.pc = "scan", !.k = k + 1], flipped)
        ELSE IF k > Len(rl)
        THEN out(ReaderDone(th, SLURM_SUCCESS, th.when, th.node_bitmap), rl)
        ELSE IF \/ rl[k].node_bitmap = NULL_BITMAP
                \/ rl[k].start_time >= th.when + JobDuration(th.job)
                \/ rl[k].end_time <= th.when
        THEN out([th EXCEPT !.k = k + 1], rl)
        ELSE IF /\ th.job.req_node_bitmap # NULL_BITMAP
                /\ bit_overlap(th.job.req_node_bitmap, rl[k].node_bitmap) # 0
        THEN out(ReaderDeferred(th, rl[k].end_time), rl)
        ELSE out([th EXCEPT !.pc = "and"], flipped)

\* show_resv(): the buffer it hands back
RECURSIVE ShowAll(_)
ShowAll(rl) ==
    IF Len(rl) = 0 THEN <<>> ELSE _pack_resv(Head(rl), FALSE) \o ShowAll(Tail(rl))

show_resv(rl, t) == <<pack32(Len(rl)), pack_time(t)>> \o ShowAll(rl)

\* a thread calls job_test_resv: a job with a reservation is answered from
\* the record at once, another job begins the loop with a full bitmap
ReaderCall(t, job, when) ==
    /\ ctld = "running"
    /\ readers[t].pc = "idle" /\ readers[t].calls < MaxReaderCalls
    /\ \E th \in {[pc |-> "scan", calls |-> readers[t].calls, job |-> job,
                   when0 |-> when, when |-> when, i |-> 0, k |-> 1,
                   node_bitmap |-> Nodes]} :
          IF job.resv_name # NULL_NAME
          THEN \E r \in {TestNamed(resv_list, job, when)} :
                  /\ readers' = [readers EXCEPT ![t] =
                                    ReaderDone(th, r.rc, r.when, r.node_bitmap)]
                  /\ ctld' = r.ctld
          ELSE /\ readers' = [readers EXCEPT ![t] =
                     IF Len(resv_list) = 0
                     THEN ReaderDone(th, SLURM_SUCCESS, when, Nodes)
                     ELSE th]
               /\ ctld' = ctld
    /\ UNCHANGED <<resv_list, top_suffix, now, job_list, idle_node_bitmap,
                   avail_node_bitmap, inodes, dir, dump, sweep, updates, last,
                   acct_calls, all_ok>>

\* a thread in the loop of job_test_resv takes its next step
ReaderStep(t) ==
    /\ ctld = "running"
    /\ readers[t].pc \in {"scan", "and", "not"}
    /\ \E r \in {ReaderNext(resv_list, readers[t])} :
          /\ readers' = [readers EXCEPT ![t] = r.th]
          /\ resv_list' = r.resv_list
    /\ UNCHANGED <<top_suffix, now, job_list, idle_node_bitmap,
                   avail_node_bitmap, inodes, dir, dump, sweep, updates, ctld,
                   last, acct_calls, all_ok>>

\* the call of a thread returns
ReaderReturn(t) ==
    /\ ctld = "running"
    /\ readers[t].pc \in {"done", "shown"}
    /\ readers' = [readers EXCEPT ![t] =
                      [pc |-> "idle", calls |-> readers[t].calls + 1]]
    /\ UNCHANGED <<resv_list, top_suffix, now, job_list, idle_node_bitmap,
                   avail_node_bitmap, inodes, dir, dump, sweep, updates, ctld,
                   last, acct_calls, all_ok>>

\* a thread calls show_resv
ShowResv(t) ==
    /\ ctld = "running"
    /\ readers[t].pc = "idle" /\ readers[t].calls < MaxReaderCalls
    /\ readers' = [readers EXCEPT ![t] =
                      [pc |-> "shown", calls |-> readers[t].calls,
                       buffer |-> show_resv(resv_list, now)]]
    /\ UNCHANGED <<resv_list, top_suffix, now, job_list, idle_node_bitmap,
                   avail_node_bitmap, inodes, dir, dump, sweep, updates, ctld,
                   last, acct_calls, all_ok>>

\* the list the readers find: no call changes it
Committed == Run(MixedReqs).resv_list

InitReaders ==
    /\ now = T0
    /\ avail_node_bitmap = Nodes
    /\ idle_node_bitmap = Nodes \ {1}
    /\ resv_list = Committed
    /\ top_suffix = Run(MixedReqs).top_suffix
    /\ job_list = <<>>
    /\ dir = EmptyFs.dir
    /\ inodes = EmptyFs.inodes
    /\ dump = DumpIdle
    /\ sweep = 0
    /\ updates = 0
    /\ ctld = "running"
    /\ last = [op |-> "init", rc |-> SLURM_SUCCESS]
    /\ acct_calls = <<>>
    /\ readers = NoReaders
    /\ all_ok = TRUE

\* a job of alice in alice_1, and jobs without a reservation: one that asks
\* for no node, one that asks for n0
ReaderJobs ==
    {TestJob(<<"alice", 1>>, 1001, NULL, 0, 1, NULL_BITMAP),
     TestJob(NULL_NAME, 1001, NULL, 0, 1, NULL_BITMAP),
     TestJob(NULL_NAME, 1001, NULL, 0, 1, {0})}

NextReaders ==
    \/ \E t \in Threads : \E job \in ReaderJobs : ReaderCall(t, job, T0)
    \/ \E t \in Threads : ReaderStep(t)
    \/ \E t \in Threads : ReaderReturn(t)
    \/ \E t \in Threads : ShowResv(t)

SpecReaders == InitReaders /\ [][NextReaders]_vars

(***************************************************************************)
(* Requests that change the users and the accounts of a reservation        *)
(***************************************************************************)
Tok(sign, name) == <<sign, name>>

\* reservations of two users, of two accounts, and of a user and an account
ListCreateReqs ==
    {[CR(NULL_NAME, T0, T0 + Step, <<"n0">>, NO_VAL) EXCEPT
          !.users = <<Tok("", "alice"), Tok("", "bob")>>],
     [CR(NULL_NAME, T0, T0 + Step, <<"n1">>, NO_VAL) EXCEPT
          !.users = NULL_LIST,
          !.accounts = <<Tok("", "physics"), Tok("", "chem")>>],
     [CR(NULL_NAME, T0, T0 + Step, <<"n2">>, NO_VAL) EXCEPT
          !.accounts = <<Tok("", "physics")>>]}

\* the lists of an update request, with the names a, b, c: a and b set, b
\* added, c added, c added twice, a removed, c (absent in the reservations
\* above) removed, a removed and then c, a removed and c added, and the two
\* ways to mix an unsigned name with a signed one
ListExprs(a, b, c) ==
    {<<Tok("", a), Tok("", b)>>,
     <<Tok("+", b)>>,
     <<Tok("+", c)>>,
     <<Tok("+", c), Tok("+", c)>>,
     <<Tok("-", a)>>,
     <<Tok("-", c)>>,
     <<Tok("-", a), Tok("-", c)>>,
     <<Tok("-", a), Tok("+", c)>>,
     <<Tok("+", c), Tok("", b)>>,
     <<Tok("", b), Tok("+", c)>>}

ListUpdateReqs(name) ==
    {[UR(name) EXCEPT !.users = e] : e \in ListExprs("alice", "bob", "carol")}
       \cup {[UR(name) EXCEPT !.accounts = e] :
                e \in ListExprs("physics", "chem", "bio")}

NextLists ==
    \/ \E req \in ListCreateReqs : Create(req)
    \/ \E name \in Names(resv_list) : \E req \in ListUpdateReqs(name) :
          \E uaf \in UafOutcomes : Update(req, uaf)

SpecLists == Init /\ [][NextLists]_vars

(***************************************************************************)
(* Requests for a number of nodes                                          *)
(***************************************************************************)
\* any nodes can be up, and any nodes idle
InitSelect ==
    /\ now = T0
    /\ avail_node_bitmap \in SUBSET Nodes
    /\ idle_node_bitmap \in SUBSET Nodes
    /\ resv_list = <<>>
    /\ top_suffix = 0
    /\ job_list = <<>>
    /\ dir = EmptyFs.dir
    /\ inodes = EmptyFs.inodes
    /\ dump = DumpIdle
    /\ sweep = 0
    /\ updates = 0
    /\ ctld = "running"
    /\ last = [op |-> "init", rc |-> SLURM_SUCCESS]
    /\ acct_calls = <<>>
    /\ readers = NoReaders
    /\ all_ok = TRUE

\* two windows of which the second starts where the first ends, and one
\* that spans both
SelectWindows ==
    {<<T0, T0 + Step>>, <<T0 + Step, T0 + 2 * Step>>, <<T0, T0 + 2 * Step>>}

\* requests that name their nodes
SelectListReqs ==
    {CR(NULL_NAME, w[1], w[2], hosts, NO_VAL) :
        w \in SelectWindows, hosts \in {<<"n0">>, <<"n1", "n2">>}}

\* requests for node_cnt nodes, of a partition or of the default one, with
\* a feature or without
SelectCntReqs ==
    {[CR(NULL_NAME, w[1], w[2], NULL_HOSTS, n) EXCEPT
          !.partition = part, !.features = feat] :
        w \in SelectWindows, n \in 1 .. (NodeCount + 1),
        part \in {NULL, "debug"}, feat \in {NULL, "fast"}}

NextSelect ==
    \/ \E req \in SelectListReqs : Create(req)
    \/ \E req \in SelectCntReqs : Create(req)

SpecSelect == InitSelect /\ [][NextSelect]_vars

(***************************************************************************)
(* Names and ids of new reservations                                       *)
(***************************************************************************)
\* the registry is empty and no id was drawn yet, or a reservation made
\* with the first id is still there when top_suffix is about to wrap around
IdStarts ==
    {[resv_list |-> <<>>, top_suffix |-> 0],
     [resv_list |-> Run(<<CR(NULL_NAME, T0, T0 + 2 * Step, <<"n0">>, NO_VAL)>>).resv_list,
      top_suffix |-> TOP_SUFFIX_WRAP]}

InitIds ==
    /\ now = T0
    /\ avail_node_bitmap = Nodes
    /\ idle_node_bitmap = Nodes \ {1}
    /\ \E st \in IdStarts :
          resv_list = st.resv_list /\ top_suffix = st.top_suffix
    /\ job_list = <<>>
    /\ \E buf \in {PrevCheckpoint} :
          \E fs \in {dump_all_resv_state(EmptyFs, buf, Len(buf))} :
             dir = fs.dir /\ inodes = fs.inodes
    /\ dump = DumpIdle
    /\ sweep = 0
    /\ updates = 0
    /\ ctld = "running"
    /\ last = [op |-> "init", rc |-> SLURM_SUCCESS]
    /\ acct_calls = <<>>
    /\ readers = NoReaders
    /\ all_ok = TRUE

\* requests without a name, whose name comes from the users or from the
\* accounts, and requests that bring a name of that form
IdReqs ==
    {CR(NULL_NAME, T0, T0 + Step, <<"n1">>, NO_VAL),
     CR(NULL_NAME, T0 + Step, T0 + 2 * Step, <<"n1">>, NO_VAL),
     [CR(NULL_NAME, T0, T0 + Step, <<"n2">>, NO_VAL) EXCEPT
          !.accounts = PHYSICS],
     CR(<<"alice", 2>>, T0, T0 + Step, <<"n2">>, NO_VAL),
     CR(<<"alice", 1>>, T0 + Step, T0 + 2 * Step, <<"n2">>, NO_VAL)}

NextIds ==
    \/ \E req \in IdReqs : Create(req)
    \/ \E name \in Names(resv_list) : Delete(name, SLURM_SUCCESS)
    \/ \E recover \in 0 .. 2 : Load(recover)

SpecIds == InitIds /\ [][NextIds]_vars

(***************************************************************************)
(* Requests that set and clear the flags of a reservation                  *)
(***************************************************************************)
\* each flag with the flag that clears it
FlagPairs ==
    {<<RESERVE_FLAG_MAINT, RESERVE_FLAG_NO_MAINT>>,
     <<RESERVE_FLAG_DAILY, RESERVE_FLAG_NO_DAILY>>,
     <<RESERVE_FLAG_WEEKLY, RESERVE_FLAG_NO_WEEKLY>>}

\* reservations made without flags, with one flag, with two, with all
FlagCreateReqs ==
    {[CR(NULL_NAME, T0, T0 + Step, hosts, NO_VAL) EXCEPT !.flags = f] :
        hosts \in {<<"n0">>, <<"n1">>},
        f \in {NO_VAL_FLAGS, {RESERVE_FLAG_MAINT},
               {RESERVE_FLAG_DAILY, RESERVE_FLAG_WEEKLY},
               {RESERVE_FLAG_MAINT, RESERVE_FLAG_DAILY, RESERVE_FLAG_WEEKLY}}}

\* updates that carry one flag, or one flag and the clearing of another
FlagUpdateReqs(name) ==
    {[UR(name) EXCEPT !.flags = {p[i]}] : p \in FlagPairs, i \in 1 .. 2}
       \cup {[UR(name) EXCEPT !.flags = {RESERVE_FLAG_MAINT,
                                         RESERVE_FLAG_NO_DAILY}]}

NextFlags ==
    \/ \E req \in FlagCreateReqs : Create(req)
    \/ \E name \in Names(resv_list) : \E req \in FlagUpdateReqs(name) :
          Update(req, "intact")

SpecFlags == Init /\ [][NextFlags]_vars

(***************************************************************************)
(* Requests that change the node count of a reservation                    *)
(***************************************************************************)
\* all nodes are up, and any of them idle
InitResize ==
    /\ now = T0
    /\ avail_node_bitmap = Nodes
    /\ idle_node_bitmap \in SUBSET Nodes
    /\ resv_list = <<>>
    /\ top_suffix = 0
    /\ job_list = <<>>
    /\ dir = EmptyFs.dir
    /\ inodes = EmptyFs.inodes
    /\ dump = DumpIdle
    /\ sweep = 0
    /\ updates = 0
    /\ ctld = "running"
    /\ last = [op |-> "init", rc |-> SLURM_SUCCESS]
    /\ acct_calls = <<>>
    /\ readers = NoReaders
    /\ all_ok = TRUE

\* reservations of one, two and all nodes, in two windows that adjoin
ResizeCreateReqs ==
    {CR(NULL_NAME, T0, T0 + Step, hosts, NO_VAL) :
        hosts \in {<<"n2">>, <<"n0", "n1">>, <<"n1", "n2">>,
                   <<"n0", "n1", "n2">>}}
       \cup {CR(NULL_NAME, T0 + Step, T0 + 2 * Step, <<"n0">>, NO_VAL)}

\* a new node count; or a new node count with a window that spans both
ResizeUpdateReqs(name) ==
    {[UR(name) EXCEPT !.node_cnt = n] : n \in 1 .. NodeCount}
       \cup {[UR(name) EXCEPT !.start_time = T0, !.end_time = T0 + 2 * Step,
                              !.node_cnt = 2]}

NextResize ==
    \/ \E req \in ResizeCreateReqs : Create(req)
    \/ \E name \in Names(resv_list) : \E req \in ResizeUpdateReqs(name) :
          Update(req, "intact")

SpecResize == InitResize /\ [][NextResize]_vars

(***************************************************************************)
(* dump_all_resv_state step by step, beside calls that change the registry *)
(***************************************************************************)
\* the header is packed: version, time and top_suffix, before the lock is
\* asked for.  seen keeps the records there are at this point, for the
\* properties to compare with
DumpHeader ==
    /\ ctld = "running" /\ dump.pc = "idle" /\ dump.calls < MaxDumps
    /\ dump' = [pc |-> "header",
                buf |-> <<packstr(RESV_STATE_VERSION), pack_time(now),
                          pack32(top_suffix)>>,
                pos |-> 0, nwrite |-> 0, step |-> 1, intr |-> FALSE,
                began |-> Complete(Files, "reg") \/ Complete(Files, "old"),
                calls |-> dump.calls + 1, seen |-> PackAll(resv_list)]
    /\ last' = [op |-> "dump_all_resv_state", rc |-> NULL]
    /\ acct_calls' = <<>>
    /\ UNCHANGED <<resv_list, top_suffix, now, job_list, idle_node_bitmap,
                   avail_node_bitmap, inodes, dir, sweep, updates, ctld, all_ok,
                   readers>>

\* lock_slurmctld(resv_read_lock)
DumpLock ==
    /\ ctld = "running" /\ dump.pc = "header"
    /\ dump' = [dump EXCEPT !.pc = "locked"]
    /\ UNCHANGED <<resv_list, top_suffix, now, job_list, idle_node_bitmap,
                   avail_node_bitmap, inodes, dir, sweep, updates, ctld, last,
                   all_ok, acct_calls, readers>>

\* the records are packed, and the lock is given back
DumpPack ==
    /\ ctld = "running" /\ dump.pc = "locked"
    /\ dump' = [dump EXCEPT !.pc = "creat",
                            !.buf = @ \o PackAll(resv_list),
                            !.nwrite = HdrItems + RecItems * Len(resv_list)]
    /\ UNCHANGED <<resv_list, top_suffix, now, job_list, idle_node_bitmap,
                   avail_node_bitmap, inodes, dir, sweep, updates, ctld, last,
                   all_ok, acct_calls, readers>>

\* a call that changes the registry can run: dump_all_resv_state does not
\* hold the lock, and between its header and its lock one call is let in
Unlocked ==
    /\ dump.pc # "locked"
    /\ dump.pc = "header" => last = [op |-> "dump_all_resv_state", rc |-> NULL]

SnapCreateReqs ==
    {CR(<<"maint", 0>>, T0, T0 + 2 * Step, <<"n2">>, NO_VAL),
     CR(NULL_NAME, T0, T0 + Step, <<"n0">>, NO_VAL)}

SnapUpdateReqs(name) == {[UR(name) EXCEPT !.end_time = T0 + 3 * Step]}

NextSnap ==
    \/ \E req \in SnapCreateReqs : Unlocked /\ Create(req)
    \/ \E name \in Names(resv_list) : \E req \in SnapUpdateReqs(name) :
          Unlocked /\ Update(req, "intact")
    \/ \E name \in Names(resv_list) : Unlocked /\ Delete(name, SLURM_SUCCESS)
    \/ DumpHeader
    \/ DumpLock
    \/ DumpPack
    \/ DumpCreat
    \/ \E amount \in WriteAmounts : DumpWrite(amount)
    \/ DumpShuffle

SpecSnap == Init /\ [][NextSnap]_vars

(***************************************************************************)
(* What the properties speak of                                            *)
(***************************************************************************)
Records == {resv_list[k] : k \in 1 .. Len(resv_list)}

\* the windows [start_time, end_time) of two records overlap
WindowsOverlap(a, b) == a.start_time < b.end_time /\ b.start_time < a.end_time

\* two bitmaps share a node
SharesNode(a, b) == a # NULL_BITMAP /\ b # NULL_BITMAP /\ a \cap b # {}

\* the fields of a record an update request may change
RecordFields(r) ==
    <<r.flags, r.partition, r.accounts, r.users, r.features, r.start_time,
      r.end_time, r.start_time_prev, r.node_list, r.node_bitmap, r.node_cnt,
      r.cpu_cnt>>

\* the window and the nodes a create request asks for
ReqStart(req) == IF req.start_time = NO_VAL THEN now ELSE req.start_time

ReqEnd(req) ==
    IF req.end_time # NO_VAL THEN req.end_time
    ELSE IF req.duration # 0 THEN ReqStart(req) + req.duration * MinuteSecs
    ELSE INFINITE

ReqNodes(req) ==
    IF req.node_list = ALL_HOSTS THEN Nodes
    ELSE {i \in Nodes : \E k \in 1 .. Len(req.node_list) :
                            req.node_list[k] = NodeName(i)}

\* a create request names its nodes
ExplicitNodes(req) == req.node_list # NULL_HOSTS

\* a create request passes the checks of its times, partition, principals
\* and node names
PassesValidation(req) ==
    /\ req.start_time = NO_VAL \/ req.start_time >= now - GraceSecs
    /\ req.end_time = NO_VAL \/ req.end_time >= now - GraceSecs
    /\ req.partition = NULL \/ req.partition \in PartNames
    /\ req.accounts # NULL_LIST \/ req.users # NULL_LIST
    /\ req.users = NULL_LIST
       \/ \A k \in 1 .. Len(req.users) :
             req.users[k][1] = "" /\ req.users[k][2] \in {"alice", "bob", "carol"}
    /\ ExplicitNodes(req) =>
          \/ req.node_list = ALL_HOSTS
          \/ \A k \in 1 .. Len(req.node_list) :
                \E i \in Nodes : req.node_list[k] = NodeName(i)

\* some record of the registry holds a node of the request in a window that
\* intersects the window of the request
Collides(req) ==
    \E r \in Records :
        /\ r.start_time < ReqEnd(req)
        /\ r.end_time > ReqStart(req)
        /\ SharesNode(r.node_bitmap, ReqNodes(req))

(***************************************************************************)
(* Properties                                                              *)
(***************************************************************************)
\* C1: after calls that each returned SLURM_SUCCESS, two distinct records
\* whose windows overlap share no node.
C1_OverlappingWindowsShareNoNode ==
    all_ok =>
       \A i, j \in 1 .. Len(resv_list) :
          (i < j /\ WindowsOverlap(resv_list[i], resv_list[j]))
             => ~SharesNode(resv_list[i].node_bitmap, resv_list[j].node_bitmap)

\* two records with overlapping windows, after an update that succeeded
C1_Witness ==
    /\ all_ok /\ Len(resv_list) = 2
    /\ last = [op |-> "update_resv", rc |-> SLURM_SUCCESS]
    /\ WindowsOverlap(resv_list[1], resv_list[2])
    /\ resv_list[1].node_bitmap # {} /\ resv_list[2].node_bitmap # {}
    /\ resv_list[1].start_time < resv_list[1].end_time
    /\ resv_list[2].start_time < resv_list[2].end_time

\* C2: an update_resv call that returns an error leaves every field of
\* every record as it was before the call.
C2_FailedUpdateChangesNothing ==
    [][(updates' = updates + 1 /\ ctld' = "running"
        /\ last'.rc # SLURM_SUCCESS)
       => /\ Len(resv_list') = Len(resv_list)
          /\ \A k \in 1 .. Len(resv_list) :
                RecordFields(resv_list'[k]) = RecordFields(resv_list[k])]_vars

\* C3: after calls that each returned SLURM_SUCCESS every record starts
\* before it ends.
C3_StartBeforeEnd ==
    all_ok => \A r \in Records : r.start_time < r.end_time

\* C4: after a create_resv, update_resv or load_all_resv_state call that
\* returned SLURM_SUCCESS, node_cnt of every record is the number of bits
\* set in its node_bitmap.
C4_NodeCntIsPopcount ==
    (/\ last.op \in {"create_resv", "update_resv", "load_all_resv_state"}
     /\ last.rc = SLURM_SUCCESS)
    => \A r \in Records :
          r.node_bitmap # NULL_BITMAP /\ bit_set_count(r.node_bitmap) = r.node_cnt

\* the same holds as long as every call returned SLURM_SUCCESS
NodeCntIsPopcountWhileAllOk ==
    all_ok => \A r \in Records :
          r.node_bitmap # NULL_BITMAP /\ bit_set_count(r.node_bitmap) = r.node_cnt

\* C5: after calls that each returned SLURM_SUCCESS every record names an
\* account or a user.
C5_SomePrincipal ==
    all_ok =>
       \A r \in Records :
          \/ r.account_cnt > 0
          \/ r.user_cnt > 0
          \/ r.accounts \notin {NULL_LIST, <<>>}
          \/ r.users \notin {NULL_LIST, <<>>}

UniqueNames ==
    \A i, j \in 1 .. Len(resv_list) :
       i # j => resv_list[i].name # resv_list[j].name

\* a create request reaches the look up of its name: it passes the checks
\* before it and, with the nodes it names, collides with no record
ReachesNameCheck(req) ==
    PassesValidation(req) /\ ExplicitNodes(req) /\ ~Collides(req)

\* C6, as the specification states it: no two records have the same name,
\* and create_resv with a supplied name that already exists returns
\* ESLURM_RESERVATION_INVALID.
C6_UniqueNamesDupInvalid ==
    /\ []UniqueNames
    /\ [][\A req \in CreateReqs :
             (Create(req) /\ req.name \in Names(resv_list))
                => last'.rc = ESLURM_RESERVATION_INVALID]_vars

\* C6, amended: no two records have the same name; create_resv with a
\* supplied name that already exists adds no record and returns an error,
\* which is ESLURM_RESERVATION_INVALID when the request passes the checks
\* made before the name is looked up.
C6_UniqueNamesDupRejected ==
    /\ []UniqueNames
    /\ [][\A req \in CreateReqs :
             (Create(req) /\ req.name \in Names(resv_list))
                => /\ resv_list' = resv_list
                   /\ last'.rc # SLURM_SUCCESS
                   /\ ReachesNameCheck(req)
                         => last'.rc = ESLURM_RESERVATION_INVALID]_vars

\* a create request with the name of a record was turned down for the name
C6_Witness ==
    /\ last = [op |-> "create_resv", rc |-> ESLURM_RESERVATION_INVALID]
    /\ <<"maint", 0>> \in Names(resv_list)
    /\ UniqueNames

\* C7: a create_resv call that returns an error leaves the records of the
\* registry and all their fields as they were.
C7_FailedCreateChangesNothing ==
    [][(last'.op = "create_resv" /\ last'.rc # SLURM_SUCCESS)
          => resv_list' = resv_list]_vars

\* a create request was turned down while the registry held a record
C7_Witness ==
    /\ last.op = "create_resv"
    /\ last.rc \in {ESLURM_INVALID_TIME_VALUE, ESLURM_RESERVATION_INVALID,
                    ESLURM_INVALID_NODE_NAME, ESLURM_USER_ID_MISSING,
                    ESLURM_TOO_MANY_REQUESTED_NODES}
    /\ Len(resv_list) > 0

\* C8, as the specification states it: create_resv with a node list returns
\* ESLURM_INVALID_TIME_VALUE exactly when a record collides with the request.
C8_InvalidTimeIffCollision ==
    [][\A req \in CreateReqs :
          (Create(req) /\ ExplicitNodes(req))
             => (last'.rc = ESLURM_INVALID_TIME_VALUE <=> Collides(req))]_vars

\* C8, amended: for a request that passes the checks of its times, partition,
\* principals and node names, create_resv with a node list returns
\* ESLURM_INVALID_TIME_VALUE exactly when a record collides with the request;
\* a window that begins where the window of a record ends does not collide.
C8_ValidRequestInvalidTimeIffCollision ==
    [][\A req \in CreateReqs :
          (Create(req) /\ ExplicitNodes(req) /\ PassesValidation(req))
             => (last'.rc = ESLURM_INVALID_TIME_VALUE <=> Collides(req))]_vars

\* a reservation was created on the node of another, in the window that
\* begins where the window of the other ends
C8_Witness ==
    /\ last = [op |-> "create_resv", rc |-> SLURM_SUCCESS]
    /\ Len(resv_list) = 2
    /\ resv_list[2].start_time = resv_list[1].end_time
    /\ resv_list[1].start_time < resv_list[1].end_time
    /\ SharesNode(resv_list[1].node_bitmap, resv_list[2].node_bitmap)

\* a job that is not finished holds the id of the record
HeldByJob(r) ==
    \E j \in 1 .. Len(job_list) :
        ~job_list[j].finished /\ job_list[j].resv_id = r.resv_id

\* C9: delete_resv of a record a job that is not finished holds returns
\* ESLURM_RESERVATION_BUSY and keeps the record; of another record, removes
\* it; of a name that is not in the registry, returns
\* ESLURM_RESERVATION_INVALID and changes nothing.
C9_DeleteBusyRemovedOrInvalid ==
    [][\A name \in ResvNames : \A acct_rc \in {SLURM_SUCCESS, SLURM_ERROR} :
          Delete(name, acct_rc) =>
             IF name \notin Names(resv_list)
             THEN last'.rc = ESLURM_RESERVATION_INVALID /\ resv_list' = resv_list
             ELSE LET r == CHOOSE x \in Records : x.name = name
                  IN IF HeldByJob(r)
                     THEN /\ last'.rc = ESLURM_RESERVATION_BUSY
                          /\ resv_list' = resv_list
                     ELSE /\ Records' = Records \ {r}
                          /\ Len(resv_list') = Len(resv_list) - 1]_vars

\* a delete request was turned down for a job, and the record is there
C9_Witness ==
    /\ last = [op |-> "delete_resv", rc |-> ESLURM_RESERVATION_BUSY]
    /\ \E r \in Records : HeldByJob(r)

\* C10: when the controller stops during a dump_all_resv_state call that
\* began with a complete checkpoint on disk, resv_state or resv_state.old
\* holds a complete checkpoint.
C10_CrashLeavesCheckpoint ==
    (ctld = "crashed" /\ dump.pc # "idle" /\ dump.began)
       => Complete(Files, "reg") \/ Complete(Files, "old")

\* resv_state holds what dump_all_resv_state writes of the registry as it is
DumpedRegistry ==
    LET d == FileData(Files, "reg")
    IN Len(d) >= HdrItems /\ d = DumpBuffer(resv_list, top_suffix, d[2][2])

\* C11: after calls that each returned SLURM_SUCCESS, dump_all_resv_state
\* followed by load_all_resv_state(2) leaves the same records, every field
\* of each with the value it had, and a top_suffix that is not smaller.
C11_DumpLoadRoundTrip ==
    [][(all_ok /\ DumpedRegistry /\ LoadRead(2, Len(FileData(Files, "reg"))))
          => /\ resv_list' = resv_list
             /\ top_suffix' >= top_suffix]_vars

\* C12: load_all_resv_state(1) does what load_all_resv_state(0) does: it
\* validates the records of the registry and reads no file.
C12_RecoverOneRevalidates ==
    [][\A size \in ReadSizes :
          LoadRead(1, size)
             => \E r \in {load_all_resv_state(resv_list, top_suffix, <<>>, 0)} :
                   /\ resv_list' = r.resv_list
                   /\ top_suffix' = r.top_suffix
                   /\ last'.rc = r.rc]_vars

\* the data read begins with a version string that is not RESV_STATE_VERSION
OtherVersionRead(size) ==
    /\ size \in 1 .. Len(FileData(Files, "reg"))
    /\ DataRead(size)[1] \in {packstr(ver) : ver \in OtherVersions}

\* C13: load_all_resv_state(1 or 2) of a file whose version string is
\* missing or is another one returns EFAULT and leaves the records of the
\* registry as they were.
C13_OtherVersionKeepsRegistry ==
    [][\A recover \in 1 .. 2 : \A size \in ReadSizes :
          (OtherVersionRead(size) /\ LoadRead(recover, size))
             => last'.rc = EFAULT /\ resv_list' = resv_list]_vars

\* the data read has the header of this version and ends inside a record
EndsInRecord(size) ==
    /\ size \in HdrItems .. Len(FileData(Files, "reg"))
    /\ DataRead(size)[1] = packstr(RESV_STATE_VERSION)
    /\ (size - HdrItems) % RecItems # 0

\* the records of d all of whose items are in d
WholeRecords(d) ==
    [k \in 1 .. ((Len(d) - HdrItems) \div RecItems) |->
        Unpack(d, HdrItems + (k - 1) * RecItems)]

\* the records of list that pass _validate_one_reservation, as it leaves them
Validated(list) ==
    LET good == SelectSeq(list, LAMBDA r : _validate_one_reservation(r).ok)
    IN [k \in 1 .. Len(good) |-> _validate_one_reservation(good[k]).resv]

\* C14: load_all_resv_state(1 or 2) of data that ends inside a record
\* returns EFAULT and leaves in the registry the records before that one
\* that pass validation, and no other record.
C14_TruncatedKeepsWholeRecords ==
    [][\A recover \in 1 .. 2 : \A size \in ReadSizes :
          (EndsInRecord(size) /\ LoadRead(recover, size))
             => /\ last'.rc = EFAULT
                /\ resv_list' = Validated(WholeRecords(DataRead(size)))]_vars

\* a load that stopped inside the second record of the file left the first
C14_Witness ==
    /\ last = [op |-> "load_all_resv_state", rc |-> EFAULT]
    /\ Len(FileData(Files, "reg")) = HdrItems + 2 * RecItems
    /\ FileData(Files, "reg")[1] = packstr(RESV_STATE_VERSION)
    /\ Len(resv_list) = 1
    /\ resv_list[1].name = Unpack(FileData(Files, "reg"), HdrItems).name
    /\ resv_list[1].node_bitmap # NULL_BITMAP

\* the record of the registry a job names
NamedResv(job) == CHOOSE r \in Records : r.name = job.resv_name

\* the uid of the job is one of the uids of the record, or the job has an
\* account and it is one of the accounts of the record
Granted(job, resv) ==
    \/ \E i \in 1 .. Len(resv.user_list) : resv.user_list[i] = job.user_id
    \/ /\ job.account # NULL
       /\ \E i \in 1 .. Len(resv.account_list) :
             TokText(resv.account_list[i]) = job.account

\* C15: for a job that names a record of the registry, the access check of
\* validate_job_resv and of job_test_resv succeeds when the uid of the job is
\* in user_list of the record or the job has an account that is in
\* account_list, and gives ESLURM_RESERVATION_ACCESS otherwise.
C15_AccessIffUserOrAccount ==
    [][/\ (ValidateJob(1) /\ job_list[1].resv_name \in Names(resv_list))
            => last'.rc = IF Granted(job_list[1], NamedResv(job_list[1]))
                          THEN SLURM_SUCCESS
                          ELSE ESLURM_RESERVATION_ACCESS
       /\ \A when \in TestWhens :
             (JobTestResv(1, when) /\ job_list[1].resv_name \in Names(resv_list))
                => (last'.rc = ESLURM_RESERVATION_ACCESS
                       <=> ~Granted(job_list[1], NamedResv(job_list[1])))]_vars

\* a job of another user was granted a reservation for its account
C15_Witness ==
    /\ last = [op |-> "validate_job_resv", rc |-> SLURM_SUCCESS]
    /\ Len(job_list) = 1
    /\ job_list[1].resv_name \in Names(resv_list)
    /\ job_list[1].account = "physics"
    /\ \A i \in 1 .. Len(NamedResv(job_list[1]).user_list) :
          NamedResv(job_list[1]).user_list[i] # job_list[1].user_id

\* C16: validate_job_resv of a job with no reservation name or an empty one
\* returns SLURM_SUCCESS and sets resv_id and resv_flags of the job to 0; of
\* a job whose name is not in the registry, returns
\* ESLURM_RESERVATION_INVALID; of a job that names a record, sets resv_id and
\* resv_flags to those of the record when the access check succeeds; when it
\* returns an error resv_id and resv_flags of the job are as they were.
C16_ValidateSetsIdOnSuccess ==
    [][ValidateJob(1) =>
          LET job == job_list[1]
              aft == job_list'[1]
              same == aft.resv_id = job.resv_id /\ aft.resv_flags = job.resv_flags
          IN  IF job.resv_name \in {NULL_NAME, <<"", 0>>}
              THEN last'.rc = SLURM_SUCCESS /\ aft.resv_id = 0 /\ aft.resv_flags = {}
              ELSE IF job.resv_name \notin Names(resv_list)
              THEN last'.rc = ESLURM_RESERVATION_INVALID /\ same
              ELSE IF _valid_job_access_resv(job, NamedResv(job)) = SLURM_SUCCESS
              THEN /\ last'.rc = SLURM_SUCCESS
                   /\ aft.resv_id = NamedResv(job).resv_id
                   /\ aft.resv_flags = NamedResv(job).flags
              ELSE last'.rc = ESLURM_RESERVATION_ACCESS /\ same]_vars

\* a job that held the id of another reservation was refused and kept it
C16_Witness ==
    /\ last = [op |-> "validate_job_resv", rc |-> ESLURM_RESERVATION_ACCESS]
    /\ Len(job_list) = 1
    /\ job_list[1].resv_name \in Names(resv_list)
    /\ job_list[1].resv_id = 7
    /\ NamedResv(job_list[1]).resv_id # 7

\* the job names a record of the registry and the access check grants it
BoundAccessible(job) ==
    /\ job.resv_name \in Names(resv_list)
    /\ _valid_job_access_resv(job, NamedResv(job)) = SLURM_SUCCESS

\* C17: job_test_resv of a job bound to a reservation it has access to: when
\* *when is before start_time it sets *when to start_time and returns
\* ESLURM_INVALID_TIME_VALUE; when *when is after end_time it sets *when to
\* end_time and the priority of the job to 0 and returns
\* ESLURM_RESERVATION_INVALID; otherwise it returns SLURM_SUCCESS with a copy
\* of node_bitmap of the record and leaves *when as it was.
C17_NamedTestByWindow ==
    [][\A when \in TestWhens :
          (JobTestResv(1, when) /\ BoundAccessible(job_list[1])) =>
             LET r == NamedResv(job_list[1])
             IN  IF when < r.start_time
                 THEN /\ last'.when = r.start_time
                      /\ last'.rc = ESLURM_INVALID_TIME_VALUE
                 ELSE IF when > r.end_time
                 THEN /\ last'.when = r.end_time
                      /\ job_list'[1].priority = 0
                      /\ last'.rc = ESLURM_RESERVATION_INVALID
                 ELSE /\ last'.rc = SLURM_SUCCESS
                      /\ last'.node_bitmap = r.node_bitmap
                      /\ last'.when = when]_vars

\* a job was tested at the end of the window of its reservation and got its
\* nodes
C17_Witness ==
    /\ last.op = "job_test_resv" /\ last.rc = SLURM_SUCCESS
    /\ Len(job_list) = 1
    /\ BoundAccessible(job_list[1])
    /\ last.when = NamedResv(job_list[1]).end_time
    /\ last.node_bitmap = NamedResv(job_list[1]).node_bitmap

\* the records whose window overlaps [when, when + duration)
OverlapsJob(when, duration) ==
    {r \in Records : r.start_time < when + duration /\ r.end_time > when}

\* C18: when job_test_resv of a job without a reservation returns
\* SLURM_SUCCESS, the bitmap it gives holds the nodes that are in node_bitmap
\* of no record whose window overlaps [*when, *when + duration), and no such
\* record holds a required node of the job.
C18_UnboundGetsFreeNodes ==
    [][\A when \in TestWhens :
          (/\ JobTestResv(1, when)
           /\ job_list[1].resv_name = NULL_NAME
           /\ last'.rc = SLURM_SUCCESS) =>
             LET job == job_list[1]
                 over == OverlapsJob(last'.when, JobDuration(job))
             IN  /\ last'.node_bitmap =
                       Nodes \ UNION {r.node_bitmap : r \in over}
                 /\ \A r \in over :
                       \/ job.req_node_bitmap = NULL_BITMAP
                       \/ job.req_node_bitmap \cap r.node_bitmap = {}]_vars

\* a job without a reservation was deferred and then got the nodes other
\* reservations leave
C18_Witness ==
    /\ last.op = "job_test_resv" /\ last.rc = SLURM_SUCCESS
    /\ Len(job_list) = 1
    /\ job_list[1].resv_name = NULL_NAME
    /\ Len(last.whens) > 1
    /\ last.node_bitmap # Nodes /\ last.node_bitmap # {}
    /\ OverlapsJob(last.when, JobDuration(job_list[1])) # {}

\* C19: job_test_resv of a job without a reservation passes over the list
\* again at most 10 times, each time with a later *when; when the last pass
\* defers the job as well it returns ESLURM_INVALID_TIME_VALUE, with a *when
\* that is later again and no bitmap.
C19_UnboundRetriesTenTimes ==
    [][\A when \in TestWhens :
          (JobTestResv(1, when) /\ job_list[1].resv_name = NULL_NAME) =>
             LET w == last'.whens
             IN  /\ Len(w) - 1 <= 10
                 /\ \A k \in 1 .. (Len(w) - 1) : w[k] < w[k + 1]
                 /\ last'.rc \in {SLURM_SUCCESS, ESLURM_INVALID_TIME_VALUE}
                 /\ last'.rc = SLURM_SUCCESS =>
                       last'.node_bitmap # NULL_BITMAP
                 /\ last'.rc = ESLURM_INVALID_TIME_VALUE =>
                       /\ Len(w) - 1 = 10
                       /\ last'.when > w[Len(w)]
                       /\ last'.node_bitmap = NULL_BITMAP]_vars

\* a job without a reservation was deferred by eleven passes and given up
C19_Witness ==
    /\ last.op = "job_test_resv" /\ last.rc = ESLURM_INVALID_TIME_VALUE
    /\ Len(job_list) = 1
    /\ job_list[1].resv_name = NULL_NAME
    /\ Len(last.whens) = 11
    /\ last.node_bitmap = NULL_BITMAP
    /\ Len(resv_list) > 11

\* a job the sweep calls job_resv_check for names the record
SweptBound(r) ==
    \E j \in 1 .. Len(job_list) :
        ~job_list[j].finished /\ job_list[j].resv_name = r.name

\* the records with job_cnt left out
SansJobCnt(rl) == [k \in 1 .. Len(rl) |-> [rl[k] EXCEPT !.job_cnt = 0]]

\* C20: from begin_job_resv_check to fini_job_resv_check the records change
\* in job_cnt only, and fini_job_resv_check removes the records with
\* end_time <= now that no job of the sweep names, and no other record.
C20_SweepPurgesEndedUnbound ==
    /\ [][sweep' # 0 => SansJobCnt(resv_list') = SansJobCnt(resv_list)]_vars
    /\ [][FiniJobResvCheck =>
             resv_list' =
                SelectSeq(resv_list,
                          LAMBDA r : ~(r.end_time <= now /\ ~SweptBound(r)))]_vars

\* the record job_resv_check of the job at j resolves to: the one its
\* resv_ptr points to, or the first of its name when it has no resv_ptr
Resolved(j) ==
    IF job_list[j].resv_ptr = NULL_NAME
    THEN list_find_first(resv_list, job_list[j].resv_name)
    ELSE Deref(resv_list, job_list[j].resv_ptr)

\* job_resv_check reaches the job at j, and its reservation resolves
Resolves(j) ==
    /\ sweep = j /\ j \in 1 .. Len(job_list)
    /\ ~job_list[j].finished
    /\ job_list[j].resv_name # NULL_NAME
    /\ job_list[j].resv_ptr # DANGLING
    /\ Resolved(j) # 0

\* C21: job_resv_check of a job whose reservation resolves adds one to the
\* job_cnt of that record and changes no other record; it returns
\* ESLURM_INVALID_TIME_VALUE when end_time + resv_over_run <= now and
\* SLURM_SUCCESS otherwise.
C21_CountsOneInvalidAfterGrace ==
    [][\A alias \in -1 .. MaxResv :
       \A freed_rc \in {SLURM_SUCCESS, ESLURM_INVALID_TIME_VALUE} :
          (JobResvCheck(alias, freed_rc) /\ Resolves(sweep)) =>
             LET k == Resolved(sweep)
             IN  /\ resv_list' =
                       [resv_list EXCEPT ![k].job_cnt = resv_list[k].job_cnt + 1]
                 /\ last'.rc =
                       IF resv_list[k].end_time + resv_over_run <= now
                       THEN ESLURM_INVALID_TIME_VALUE
                       ELSE SLURM_SUCCESS]_vars

\* the list, at the time of the call to the accounting storage, shows the
\* change the call reports: it holds the record added, it does not hold the
\* record removed, it holds the record modified with the fields reported
ChangeVisible(p) == IF p.call = "remove" THEN ~p.listed ELSE p.listed

\* C22: create_resv, update_resv and delete_resv call the accounting storage
\* only once the list shows the change, and a delete_resv the accounting
\* storage answers with an error has removed the record all the same.
C22_PostAfterChangeVisible ==
    /\ [](\A k \in 1 .. Len(acct_calls) : ChangeVisible(acct_calls[k]))
    /\ [][\A name \in ResvNames :
             (Delete(name, SLURM_ERROR) /\ acct_calls' # <<>>) =>
                name \notin Names(resv_list')]_vars

\* C23: a create_resv, update_resv or delete_resv call that returns an
\* error has made no call to the accounting storage.
C23_NoPostOnError ==
    (last.op \in {"create_resv", "update_resv", "delete_resv"}
        /\ last.rc # SLURM_SUCCESS) => acct_calls = <<>>

\* the bitmap of the record a thread in the loop of job_test_resv reads next
\* is the one the list was left with, or what the bit_not of the thread
\* itself made of it
ReadsCommitted(th) ==
    LET k == th.k
        skipped == \/ resv_list[k].start_time >= th.when + JobDuration(th.job)
                   \/ resv_list[k].end_time <= th.when
    IN  /\ (th.pc = "scan" /\ k <= Len(resv_list) /\ ~skipped) =>
              resv_list[k].node_bitmap = Committed[k].node_bitmap
        /\ th.pc \in {"and", "not"} =>
              resv_list[k].node_bitmap = bit_not(Committed[k].node_bitmap)

\* the answer of the call of a thread is the answer of the call made alone
AnswersAsAlone(th) ==
    LET alone == job_test_resv(Committed, th.job, th.when0)
    IN  /\ th.rc = alone.rc
        /\ th.node_bitmap = alone.node_bitmap
        /\ th.when = alone.when

\* C24: while threads call job_test_resv and show_resv at the same time and
\* none writes, every job_test_resv call answers with the status and the
\* bitmap it answers with when it runs alone, and no thread reads a
\* node_bitmap of a record other than the one the list was left with.
C24_ReadersAsAlone ==
    \A t \in Threads :
        /\ readers[t].pc = "done" => AnswersAsAlone(readers[t])
        /\ readers[t].pc \in {"scan", "and", "not"} => ReadsCommitted(readers[t])

\* create requests that name their nodes and their windows: windows that
\* overlap, that touch, and one that ends before it starts
PairReqs ==
    {CR(NULL_NAME, T0, T0 + 2 * Step, <<"n0">>, NO_VAL),
     CR(NULL_NAME, T0 + Step, T0 + 3 * Step, <<"n0">>, NO_VAL),
     CR(NULL_NAME, T0 + 2 * Step, T0 + 3 * Step, <<"n0", "n1">>, NO_VAL),
     CR(<<"maint", 0>>, T0 + Step, T0 + 3 * Step, <<"n1">>, NO_VAL),
     CR(NULL_NAME, T0 + 3 * Step, T0 + Step, <<"n1">>, NO_VAL),
     CR(NULL_NAME, T0 + 2 * Step, T0 + 3 * Step, <<"n2">>, NO_VAL)}

\* create_resv of req on the list rl turns req down at its _resv_overlap test
RejectedForOverlap(rl, suffix, req) ==
    /\ PassesValidation(req)
    /\ create_resv(rl, suffix, req).rc = ESLURM_INVALID_TIME_VALUE

\* create_resv of first, then create_resv of second, from the list as it
\* is: the second is turned down for overlap
SecondRejected(first, second) ==
    \E f \in {create_resv(resv_list, top_suffix, first)} :
        /\ f.ctld = "running"
        /\ RejectedForOverlap(f.resv_list, f.top_suffix, second)

\* create_resv of req, from the list as it is, returns SLURM_SUCCESS
AcceptedAlone(req) ==
    create_resv(resv_list, top_suffix, req).rc = SLURM_SUCCESS

\* C25 as stated: from any list, for any two requests A and B that name
\* their nodes, B is turned down for overlap after A exactly when A is
\* turned down for overlap after B.
C25_OverlapSymmetric ==
    \A A \in PairReqs : \A B \in PairReqs :
        SecondRejected(A, B) <=> SecondRejected(B, A)

\* C25, amended: the same for two requests that create_resv accepts, each
\* alone, from that list.
C25_AcceptedOverlapSymmetric ==
    \A A \in {q \in PairReqs : AcceptedAlone(q)} :
       \A B \in {q \in PairReqs : AcceptedAlone(q)} :
          SecondRejected(A, B) <=> SecondRejected(B, A)

\* the list holds a record, and of two requests it accepts alone each is
\* turned down for overlap after the other
C25_Witness ==
    /\ Len(resv_list) > 0
    /\ \E A \in PairReqs : \E B \in PairReqs :
          /\ A # B /\ AcceptedAlone(A) /\ AcceptedAlone(B)
          /\ SecondRejected(A, B) /\ SecondRejected(B, A)

\* a list of an update request has a token with a sign and one without
Mixes(toks) ==
    /\ toks # NULL_LIST
    /\ \E k \in 1 .. Len(toks) : toks[k][1] = ""
    /\ \E k \in 1 .. Len(toks) : toks[k][1] # ""

\* the users, or the accounts, of the record of that name: string, list, count
UsersOf(rl, name) ==
    LET r == rl[list_find_first(rl, name)]
    IN  <<r.users, r.user_list, r.user_cnt>>

AccountsOf(rl, name) ==
    LET r == rl[list_find_first(rl, name)]
    IN  <<r.accounts, r.account_list, r.account_cnt>>

\* C26: an update_resv whose users, or whose accounts, mix a name without
\* sign with names that have one, in either order, returns an error and
\* leaves the users, or the accounts, of the record as they were.
C26_MixedFormsRejected ==
    [][\A name \in Names(resv_list) : \A req \in ListUpdateReqs(name) :
       \A uaf \in UafOutcomes :
          Update(req, uaf) =>
             /\ Mixes(req.users) =>
                   /\ last'.rc # SLURM_SUCCESS
                   /\ UsersOf(resv_list', name) = UsersOf(resv_list, name)
             /\ Mixes(req.accounts) =>
                   /\ last'.rc # SLURM_SUCCESS
                   /\ AccountsOf(resv_list', name) = AccountsOf(resv_list, name)]_vars

\* every token of the list has a sign, and a '-' token names a user that is
\* not in the list of uids
MinusAbsentUser(toks, user_list) ==
    /\ toks # NULL_LIST
    /\ \A k \in 1 .. Len(toks) : toks[k][1] # ""
    /\ \E k \in 1 .. Len(toks) :
          /\ toks[k][1] = "-"
          /\ ~\E j \in 1 .. Len(user_list) :
                 user_list[j] = uid_from_string("", toks[k][2])

\* the same for an account and the list of accounts
MinusAbsentAccount(toks, account_list) ==
    /\ toks # NULL_LIST
    /\ \A k \in 1 .. Len(toks) : toks[k][1] # ""
    /\ \E k \in 1 .. Len(toks) :
          /\ toks[k][1] = "-"
          /\ ~\E j \in 1 .. Len(account_list) :
                 account_list[j][2] = toks[k][2]

\* C27: an update_resv with '-x' for a user x that is not in the list
\* returns ESLURM_USER_ID_MISSING, for an account x that is not in the list
\* ESLURM_INVALID_BANK_ACCOUNT, and the string, the list and the count of
\* the record are as before the call, whatever '-' tokens came before '-x'.
C27_MinusAbsentChangesNothing ==
    [][\A name \in Names(resv_list) : \A req \in ListUpdateReqs(name) :
       \A uaf \in UafOutcomes :
          Update(req, uaf) =>
             /\ MinusAbsentUser(req.users, UsersOf(resv_list, name)[2]) =>
                   /\ last'.rc = ESLURM_USER_ID_MISSING
                   /\ UsersOf(resv_list', name) = UsersOf(resv_list, name)
             /\ MinusAbsentAccount(req.accounts,
                                   AccountsOf(resv_list, name)[2]) =>
                   /\ last'.rc = ESLURM_INVALID_BANK_ACCOUNT
                   /\ AccountsOf(resv_list', name) = AccountsOf(resv_list, name)]_vars

\* every token of the list is a '+' token, for a user that is in the list
\* of uids already
PlusPresentUser(toks, user_list) ==
    /\ toks # NULL_LIST
    /\ \A k \in 1 .. Len(toks) :
          /\ toks[k][1] = "+"
          /\ \E j \in 1 .. Len(user_list) :
                user_list[j] = uid_from_string("", toks[k][2])

\* the same for the accounts
PlusPresentAccount(toks, account_list) ==
    /\ toks # NULL_LIST
    /\ \A k \in 1 .. Len(toks) :
          /\ toks[k][1] = "+"
          /\ \E j \in 1 .. Len(account_list) :
                account_list[j][2] = toks[k][2]

\* every token of the list is a '+' token
AllPlus(toks) ==
    /\ toks # NULL_LIST
    /\ \A k \in 1 .. Len(toks) : toks[k][1] = "+"

NameOfUid(uid) ==
    CHOOSE n \in {"alice", "bob", "carol"} : uid_from_string("", n) = uid

\* the names of a list joined by commas; no string and the empty string
\* both stand for the empty list

SameString(str, list) ==
    IF Len(list) = 0 THEN str = NULL_LIST \/ str = <<>> ELSE str = list

\* string, list and count of the users and of the accounts of a record agree
ListsAgree(r) ==
    /\ r.user_cnt = Len(r.user_list)
    /\ SameString(r.users,
                  [k \in 1 .. Len(r.user_list) |->
                      <<"", NameOfUid(r.user_list[k])>>])
    /\ r.account_cnt = Len(r.account_list)
    /\ SameString(r.accounts, r.account_list)

\* C29: after a create_resv or an update_resv that returned SLURM_SUCCESS,
\* the users string of the record is its list of uids, as names joined by
\* commas in the order of the list, user_cnt is the length of that list, and
\* the same holds of accounts, account_list and account_cnt.
C29_StringsAreJoinedLists ==
    [][/\ \A req \in ListCreateReqs :
             (Create(req) /\ last'.rc = SLURM_SUCCESS) =>
                ListsAgree(resv_list'[Len(resv_list')])
       /\ \A name \in Names(resv_list) : \A req \in ListUpdateReqs(name) :
          \A uaf \in UafOutcomes :
             (Update(req, uaf) /\ last'.rc = SLURM_SUCCESS) =>
                ListsAgree(resv_list'[list_find_first(resv_list', name)])]_vars

\* the nodes a request for a number of nodes can get: those of its
\* partition that no record of the registry holds in a window that meets
\* the request's, that have the feature asked for, and that are up
AvailFor(rl, req) ==
    {i \in PartNodes(IF req.partition = NULL THEN default_part_loc
                     ELSE req.partition) :
        /\ ~\E k \in 1 .. Len(rl) :
               /\ rl[k].node_bitmap # NULL_BITMAP
               /\ i \in rl[k].node_bitmap
               /\ rl[k].start_time < req.end_time
               /\ req.start_time < rl[k].end_time
        /\ req.features # NULL => req.features \in NodeFeatures(i)
        /\ i \in avail_node_bitmap}

\* picked is n nodes of from, and every node of from left out has a higher
\* index than every node picked
LowestOf(picked, from, n) ==
    /\ picked \subseteq from
    /\ Cardinality(picked) = n
    /\ \A i \in picked : \A j \in from \ picked : i < j

\* C30: a create_resv for node_cnt nodes returns
\* ESLURM_TOO_MANY_REQUESTED_NODES exactly when fewer than node_cnt nodes
\* are available to it; otherwise it succeeds and the record holds exactly
\* node_cnt available nodes: the node_cnt lowest idle ones when that many are
\* idle, else all idle ones and the lowest of the others for the rest.
C30_SelectsLowestIdleFirst ==
    [][\A req \in SelectCntReqs :
          Create(req) =>
             \E avail \in {AvailFor(resv_list, req)} :
             \E idle \in {AvailFor(resv_list, req) \cap idle_node_bitmap} :
                /\ last'.rc = ESLURM_TOO_MANY_REQUESTED_NODES
                      <=> Cardinality(avail) < req.node_cnt
                /\ Cardinality(avail) >= req.node_cnt =>
                      /\ last'.rc = SLURM_SUCCESS
                      /\ Len(resv_list') = Len(resv_list) + 1
                      /\ \E picked \in {resv_list'[Len(resv_list')].node_bitmap} :
                            /\ picked \subseteq avail
                            /\ Cardinality(picked) = req.node_cnt
                            /\ IF Cardinality(idle) >= req.node_cnt
                               THEN LowestOf(picked, idle, req.node_cnt)
                               ELSE /\ idle \subseteq picked
                                    /\ LowestOf(picked \ idle, avail \ idle,
                                                req.node_cnt - Cardinality(idle))]_vars

\* a record of two nodes that holds the one idle node, 2, and node 0, which
\* is in use, where all three nodes were available: the idle node went
\* first, and the lowest of the others filled the count
C30_Witness ==
    /\ last = [rc |-> SLURM_SUCCESS, op |-> "create_resv"]
    /\ Len(resv_list) = 1
    /\ resv_list[1].node_cnt = 2
    /\ resv_list[1].node_bitmap = {0, 2}
    /\ idle_node_bitmap = {2}
    /\ avail_node_bitmap = Nodes

\* what _select_nodes returns for the request, called on the registry rl
SelectedFor(rl, req) ==
    _select_nodes(rl, req.start_time, req.end_time, req.features, req.node_cnt,
                  IF req.partition = NULL THEN NULL
                  ELSE find_part_record(req.partition), req.partition)

\* C31: every node _select_nodes picks for a window is a node of the
\* partition, is in avail_node_bitmap, has the feature asked for, and is in
\* no record of the registry whose window starts before the end and ends
\* after the start of that window; and when it returns, node_bitmap of every
\* record and idle_node_bitmap are what they were.
C31_SelectedNodesAreFree ==
    [][\A req \in SelectCntReqs :
          Create(req) =>
             \E sel \in {SelectedFor(resv_list, req)} :
                /\ sel.rc = SLURM_SUCCESS =>
                      /\ last'.rc = SLURM_SUCCESS
                      /\ resv_list'[Len(resv_list')].node_bitmap = sel.bitmap
                      /\ \A i \in sel.bitmap :
                            /\ i \in PartNodes(IF req.partition = NULL
                                               THEN default_part_loc
                                               ELSE req.partition)
                            /\ i \in avail_node_bitmap
                            /\ req.features # NULL =>
                                  req.features \in NodeFeatures(i)
                            /\ \A k \in 1 .. Len(resv_list) :
                                  (/\ resv_list[k].start_time < req.end_time
                                   /\ resv_list[k].end_time > req.start_time)
                                     => i \notin resv_list[k].node_bitmap
                /\ Len(sel.resv_list) = Len(resv_list)
                /\ \A k \in 1 .. Len(resv_list) :
                      /\ sel.resv_list[k].node_bitmap = resv_list[k].node_bitmap
                      /\ resv_list'[k].node_bitmap = resv_list[k].node_bitmap
                /\ sel.idle = idle_node_bitmap
                /\ idle_node_bitmap' = idle_node_bitmap]_vars

\* two records with the same window, the second by a count of nodes, got
\* the node the first left, while one node is down and one is in use
C31_Witness ==
    /\ last = [rc |-> SLURM_SUCCESS, op |-> "create_resv"]
    /\ Len(resv_list) = 2
    /\ resv_list[1].node_bitmap = {0}
    /\ resv_list[2].node_bitmap = {1}
    /\ resv_list[2].features = NULL
    /\ resv_list[1].start_time = resv_list[2].start_time
    /\ resv_list[1].end_time = resv_list[2].end_time
    /\ avail_node_bitmap = {0, 1}
    /\ idle_node_bitmap = {0}

\* C32: a create_resv of a request without a name returns; when it returns
\* SLURM_SUCCESS the record it appended has the name made of the first
\* account, else the first user, and the id drawn, and no other record of
\* the registry has that name.
C32_UnnamedCreateTerminates ==
    [][\A req \in IdReqs :
          (Create(req) /\ req.name = NULL_NAME) =>
             /\ ctld' = "running"
             /\ last'.rc = SLURM_SUCCESS =>
                   \E new \in {resv_list'[Len(resv_list')]} :
                      /\ new.name = _generate_resv_name(req.accounts, req.users,
                                                        new.resv_id)
                      /\ new.resv_id = top_suffix'
                      /\ \A k \in 1 .. Len(resv_list) :
                            resv_list[k].name # new.name]_vars

\* the flags of the record of that name
FlagsOf(rl, name) == rl[list_find_first(rl, name)].flags

\* C33: after an update_resv whose flags carry MAINT, DAILY or WEEKLY the
\* record has that flag, after one whose flags carry NO_MAINT, NO_DAILY or
\* NO_WEEKLY it has not, and every flag the request does not speak of is
\* in the record's flags exactly when it was there before.
C33_FlagsSetAndClearedPerBit ==
    [][\A name \in Names(resv_list) : \A req \in FlagUpdateReqs(name) :
          Update(req, "intact") =>
             \A p \in FlagPairs :
                /\ p[1] \in req.flags => p[1] \in FlagsOf(resv_list', name)
                /\ p[2] \in req.flags => p[1] \notin FlagsOf(resv_list', name)
                /\ (p[1] \notin req.flags /\ p[2] \notin req.flags) =>
                      (p[1] \in FlagsOf(resv_list', name)
                          <=> p[1] \in FlagsOf(resv_list, name))]_vars

\* update_resv of the request comes to its overlap test, and the test finds
\* another record in the way
FinalOverlap(rl, req, uaf) ==
    With(list_find_first(rl, req.name), LAMBDA idx :
      /\ req.name # NULL_NAME /\ idx # 0
      /\ With(UpdateIdentity(rl[idx], req, uaf), LAMBDA i :
         With(UpdateTimes(i.resv, req), LAMBDA t :
         With(UpdateNodes(ReplaceAt(rl, idx, t.resv), idx, req,
                          i.resv.start_time), LAMBDA n :
           /\ i.rc = SLURM_SUCCESS /\ t.rc = SLURM_SUCCESS
           /\ n.rc = SLURM_SUCCESS
           /\ ~(n.old /\ n.resv.node_bitmap = NULL_BITMAP)
           /\ _resv_overlap(rl, n.resv.start_time, n.resv.end_time,
                            n.resv.node_bitmap, idx)))))

\* the window and the nodes of the record of that name
WindowAndNodes(rl, name) ==
    LET r == rl[list_find_first(rl, name)]
    IN  <<r.start_time, r.end_time, r.node_list, r.node_bitmap, r.node_cnt>>

\* the request changes the window, the node list or the node count only
ChangesWindowOrNodes(req) ==
    /\ req.flags = NO_VAL_FLAGS /\ req.partition = NULL
    /\ req.accounts = NULL_LIST /\ req.users = NULL_LIST
    /\ req.features = NULL

\* C34: when the overlap test at the end of update_resv, which leaves out
\* the record that is updated, finds an overlap, the call returns
\* ESLURM_INVALID_TIME_VALUE and start_time, end_time, node_list,
\* node_bitmap and node_cnt of the record are what they were before the
\* call, whether the request changes the window, the node list, the node
\* count, or the node list and the node count.
C34_OverlapRestoresWindowAndNodes ==
    [][\A name \in Names(resv_list) : \A req \in UpdateReqs(name) :
       \A uaf \in UafOutcomes :
          (/\ Update(req, uaf)
           /\ ChangesWindowOrNodes(req)
           /\ FinalOverlap(resv_list, req, uaf)) =>
             /\ last'.rc = ESLURM_INVALID_TIME_VALUE
             /\ WindowAndNodes(resv_list', name)
                   = WindowAndNodes(resv_list, name)]_vars

\* the record of that name
RecordOf(rl, name) == rl[list_find_first(rl, name)]

\* the request changes the node count, and nothing else
ChangesNodeCntOnly(req) ==
    /\ ChangesWindowOrNodes(req)
    /\ req.start_time = NO_VAL /\ req.end_time = NO_VAL
    /\ req.duration = NO_VAL /\ req.node_list = NULL_HOSTS
    /\ req.node_cnt # NO_VAL

\* C35: an update_resv to a node count k below the record's that returns
\* SLURM_SUCCESS leaves a node_bitmap of exactly k nodes, all of them nodes
\* the record had, and a node that is not idle was dropped only when no
\* idle node of the record was kept.
C35_ShrinkDropsIdleFirst ==
    [][\A name \in Names(resv_list) : \A req \in ResizeUpdateReqs(name) :
          (/\ Update(req, "intact")
           /\ ChangesNodeCntOnly(req)
           /\ req.node_cnt < RecordOf(resv_list, name).node_cnt
           /\ last'.rc = SLURM_SUCCESS) =>
             /\ \E old \in {RecordOf(resv_list, name).node_bitmap} :
                \E new \in {RecordOf(resv_list', name).node_bitmap} :
                   /\ new \subseteq old
                   /\ Cardinality(new) = req.node_cnt
                   /\ RecordOf(resv_list', name).node_cnt = req.node_cnt
                   /\ ((old \ new) \ idle_node_bitmap # {}) =>
                         new \cap idle_node_bitmap = {}]_vars

\* C36: an update_resv to a node count k above the record's that returns
\* SLURM_SUCCESS leaves a node_bitmap of exactly k nodes that holds every
\* node the record had, and the nodes added are those _select_nodes picks
\* for the record's window, features and partition, none of them in a
\* record whose window meets that window; when _select_nodes fails,
\* node_bitmap, node_list and node_cnt of the record are as they were.
C36_GrowAddsSelectedNodes ==
    [][\A name \in Names(resv_list) : \A req \in ResizeUpdateReqs(name) :
          (/\ Update(req, "intact")
           /\ ChangesNodeCntOnly(req)
           /\ req.node_cnt > RecordOf(resv_list, name).node_cnt) =>
             \E old \in {RecordOf(resv_list, name)} :
             \E new \in {RecordOf(resv_list', name)} :
             \E sel \in {_select_nodes(resv_list, old.start_time, old.end_time,
                                       old.features,
                                       req.node_cnt - old.node_cnt,
                                       old.part_ptr, NULL)} :
                /\ last'.rc = SLURM_SUCCESS =>
                      /\ sel.rc = SLURM_SUCCESS
                      /\ old.node_bitmap \subseteq new.node_bitmap
                      /\ Cardinality(new.node_bitmap) = req.node_cnt
                      /\ new.node_cnt = req.node_cnt
                      /\ new.node_bitmap \ old.node_bitmap = sel.bitmap
                      /\ \A i \in new.node_bitmap \ old.node_bitmap :
                         \A k \in 1 .. Len(resv_list) :
                            (/\ resv_list[k].start_time < old.end_time
                             /\ resv_list[k].end_time > old.start_time)
                               => i \notin resv_list[k].node_bitmap
                /\ sel.rc # SLURM_SUCCESS =>
                      /\ last'.rc = sel.rc
                      /\ new.node_bitmap = old.node_bitmap
                      /\ new.node_list = old.node_list
                      /\ new.node_cnt = old.node_cnt]_vars

\* C37: all that dump_all_resv_state writes is read while it holds the
\* read lock: when the lock is given back the buffer is the header and the
\* records of the registry as it is then, or as it was when the header was
\* packed, so that the file that becomes the checkpoint is the registry of
\* one instant, whatever create_resv, update_resv and delete_resv do
\* afterwards; and no file is created, written or renamed under the lock.
C37_CheckpointIsOneInstant ==
    [][/\ (dump.pc = "locked" /\ dump'.pc = "creat") =>
             \/ dump'.buf = DumpBuffer(resv_list, top_suffix, now)
             \/ dump'.buf = SubSeq(dump.buf, 1, HdrItems) \o dump.seen
       /\ (dump.pc \in {"creat", "write", "shuffle"}
              /\ dump'.pc \in {"creat", "write", "shuffle"}) =>
             dump'.buf = dump.buf
       /\ (dir' # dir \/ inodes' # inodes) => dump.pc # "locked"
       /\ (dump.pc = "shuffle" /\ dump'.pc = "idle") =>
             FileData([dir |-> dir', inodes |-> inodes'], "reg") = dump.buf]_vars

(***************************************************************************)
(* The cached resv_ptr of a job                                            *)
(***************************************************************************)
\* the sweep stands at an unfinished job with a reservation name whose
\* resv_ptr points to a record that was removed from the registry
StalePtrAtSweep ==
    /\ sweep \in 1 .. Len(job_list)
    /\ ~job_list[sweep].finished
    /\ job_list[sweep].resv_name # NULL_NAME
    /\ job_list[sweep].resv_ptr = DANGLING

\* C38: after any creates, deletes, purges and loads, job_resv_check never
\* dereferences a resv_ptr that refers to a record removed from the
\* registry: the pointer it uses is one to a record that is in the registry
\* now, a stale one having been resolved again by name.
C38_NoStalePointerDereferenced ==
    [][\A alias \in -1 .. MaxResv :
       \A freed_rc \in {SLURM_SUCCESS, ESLURM_INVALID_TIME_VALUE} :
          JobResvCheck(alias, freed_rc) =>
             /\ ~StalePtrAtSweep
             /\ \A j \in 1 .. Len(job_list') :
                   job_list'[j].resv_ptr \notin {NULL_NAME, DANGLING} =>
                      job_list'[j].resv_ptr \in Names(resv_list')]_vars

(***************************************************************************)
(* The ids of the records of the registry                                  *)
(***************************************************************************)
\* C39: no two records that are in the registry at the same time have the
\* same resv_id, after any creates, deletes and recoveries, also when
\* top_suffix wrapped around and when it was set again from a checkpoint
\* and from the names loaded; so the resv_id of a job, which delete_resv
\* matches in its busy test, stands for one reservation only.
C39_ResvIdsUnique ==
    \A i \in 1 .. Len(resv_list) : \A j \in 1 .. Len(resv_list) :
        i # j => resv_list[i].resv_id # resv_list[j].resv_id

====
